---- MODULE Spec2Model ----
(***************************************************************************)
(* Live analytics synchronisation core of the Spectator front end.         *)
(*                                                                         *)
(* The React client (frontend/src/App.jsx) is modelled as a state machine  *)
(* over the component's useState cells.  An event handler and the render   *)
(* it causes is one step; the passive effects that render schedules        *)
(* (rateLabels effect, poll effect) run in the next step, FlushEffects,    *)
(* and nothing else runs in between (pendingEffects # {} blocks every      *)
(* other action, as the browser runs them to completion).                  *)
(*                                                                         *)
(* Strings that the code inspects character by character (references,      *)
(* runtimes) are sequences of one-character strings.                       *)
(***************************************************************************)
EXTENDS Integers, Sequences, FiniteSets, Bags, TLC

VARIABLES
    isEditing,
    draftInput, draftSource, draftMode, draftKeywords, draftThreshold,
    activeStreamId, activeSource, activeMode, activeKeywords, activeThreshold,
    status, error,
    summary, events, history, videoTitle, videoChannel, updatedAt,
    rates, rateLabels, ratePoints, streamStartTs,
    inflight,        \* bag of requests awaiting their response
    timers,          \* bag of pending window.setTimeout timers
    pendingEffects,  \* passive effects scheduled by the last render
    chart,           \* the Chart.js instance behind chartRef, when mounted
    hoveredSummary, hoveredRuntime,
    download,        \* the file the last export handed to the browser
    rateChart,       \* the chart of the static client (static/app.js)
    edits,           \* draft edits made so far (bounds the user)
    seriesKey,       \* key of the request whose response last filled the
                     \* series cells (history variable)
    \* The static client (static/app.js): its module variables, the form
    \* controls it reads, the elements it writes, and its pending work.
    pollTimer, currentVideoId, currentMode, currentKeywords, currentThreshold,
    controls,        \* input, checked mode radio, keywordInput, keywordThreshold
    page,            \* the text of the elements the client writes
    fetches,         \* bag of the requests of fetchSummary awaiting a response
    staticTimers,    \* bag of the pending timers of window.setTimeout
    last             \* the last event handled (history variable)

draftVars  == <<draftInput, draftSource, draftMode, draftKeywords, draftThreshold>>
activeVars == <<activeStreamId, activeSource, activeMode, activeKeywords,
                activeThreshold>>
seriesVars == <<summary, events, history, videoTitle, videoChannel, updatedAt,
                rates, rateLabels, ratePoints, streamStartTs>>
pollVars   == <<inflight, timers>>
viewVars   == <<hoveredSummary, hoveredRuntime, download, rateChart>>
staticVars == <<pollTimer, currentVideoId, currentMode, currentKeywords,
                currentThreshold, controls, page, fetches, staticTimers>>
vars == <<isEditing, draftVars, activeVars, status, error, seriesVars, pollVars,
          chart, viewVars, pendingEffects, edits, seriesKey, staticVars, last>>

(***************************************************************************)
(* Bounds of the model.                                                    *)
(***************************************************************************)
\* Requests that may be awaiting a response at once (commits are held back
\* when this many are outstanding).
MaxInFlight == 2

\* Draft edits the user makes in one session.
MaxEdits == 3

(***************************************************************************)
(* Values.                                                                 *)
(***************************************************************************)
\* JavaScript null in a numeric cell (updatedAt, streamStartTs).
Null == -1

\* The delay of the poll timer, in milliseconds.
PollDelay == 8000

Lower == {"a","b","c","d","e","f","g","h","i","j","k","l","m",
          "n","o","p","q","r","s","t","u","v","w","x","y","z"}
Upper == {"A","B","C","D","E","F","G","H","I","J","K","L","M",
          "N","O","P","Q","R","S","T","U","V","W","X","Y","Z"}
Digit == {"0","1","2","3","4","5","6","7","8","9"}

\* [a-zA-Z0-9_-]
IsIdChar(c) == c \in Lower \cup Upper \cup Digit \cup {"_", "-"}
\* [a-zA-Z0-9_]
IsHandleChar(c) == c \in Lower \cup Upper \cup Digit \cup {"_"}

(***************************************************************************)
(* String helpers (String.prototype.trim / includes / split / replace).    *)
(***************************************************************************)
RECURSIVE TrimLeft(_)
TrimLeft(s) == IF s # <<>> /\ Head(s) = " " THEN TrimLeft(Tail(s)) ELSE s

RECURSIVE TrimRight(_)
TrimRight(s) ==
    IF s # <<>> /\ s[Len(s)] = " " THEN TrimRight(SubSeq(s, 1, Len(s) - 1)) ELSE s

Trim(s) == TrimRight(TrimLeft(s))

Includes(s, sub) ==
    \E i \in 1..(Len(s) - Len(sub) + 1) : SubSeq(s, i, i + Len(sub) - 1) = sub

\* s.split(sep) for a one-character separator: the pieces, empty ones included.
RECURSIVE SplitOn(_, _, _)
SplitOn(s, sep, cur) ==
    IF s = <<>> THEN <<cur>>
    ELSE IF Head(s) = sep THEN <<cur>> \o SplitOn(Tail(s), sep, <<>>)
    ELSE SplitOn(Tail(s), sep, Append(cur, Head(s)))

\* .filter(Boolean) on a list of strings.
RECURSIVE FilterNonEmpty(_)
FilterNonEmpty(ps) ==
    IF ps = <<>> THEN <<>>
    ELSE IF Head(ps) = <<>> THEN FilterNonEmpty(Tail(ps))
    ELSE <<Head(ps)>> \o FilterNonEmpty(Tail(ps))

\* s.replace(c, "") : the first occurrence of c removed.
RECURSIVE RemoveFirst(_, _)
RemoveFirst(s, c) ==
    IF s = <<>> THEN <<>>
    ELSE IF Head(s) = c THEN Tail(s)
    ELSE <<Head(s)>> \o RemoveFirst(Tail(s), c)

\* parts.indexOf(x), 1-based; 0 when absent.
IndexOf(ps, x) ==
    IF \E i \in 1..Len(ps) : ps[i] = x
    THEN CHOOSE i \in 1..Len(ps) : ps[i] = x /\ \A j \in 1..(i - 1) : ps[j] # x
    ELSE 0

(***************************************************************************)
(* Reference text.  A text is what the user typed; IsUrl says whether      *)
(* new URL(trimmed) accepts it, and hostname, pathname and v are what the  *)
(* URL object then exposes (hasV: searchParams.has("v")).                  *)
(***************************************************************************)
Text(chars) ==
    [text |-> chars, isUrl |-> FALSE, hostname |-> <<>>, pathname |-> <<>>,
     hasV |-> FALSE, v |-> <<>>]

Url(chars, host, path, hasV, v) ==
    [text |-> chars, isUrl |-> TRUE, hostname |-> host, pathname |-> path,
     hasV |-> hasV, v |-> v]

\* /^[a-zA-Z0-9_-]{11}$/.test(s)
IsVideoId(s) == Len(s) = 11 /\ \A i \in 1..Len(s) : IsIdChar(s[i])

\* /^[a-zA-Z0-9_]+$/.test(s)
IsHandle(s) == Len(s) >= 1 /\ \A i \in 1..Len(s) : IsHandleChar(s[i])

parseVideoId(value) ==
    IF value.text = <<>> THEN <<>>
    ELSE LET trimmed == Trim(value.text) IN
         IF IsVideoId(trimmed) THEN trimmed
         ELSE IF ~value.isUrl THEN <<>>
         ELSE IF Includes(value.hostname, <<"y","o","u","t","u",".","b","e">>)
              THEN RemoveFirst(value.pathname, "/")
         ELSE IF value.hasV THEN value.v
         ELSE LET parts == FilterNonEmpty(SplitOn(value.pathname, "/", <<>>))
                  liveIndex == IndexOf(parts, <<"l","i","v","e">>)
              IN IF liveIndex # 0 /\ liveIndex + 1 <= Len(parts)
                 THEN parts[liveIndex + 1]
                 ELSE <<>>

parseTwitchChannel(value) ==
    IF value.text = <<>> THEN <<>>
    ELSE LET trimmed == Trim(value.text) IN
         IF IsHandle(trimmed) THEN trimmed
         ELSE IF ~value.isUrl THEN <<>>
         ELSE IF ~Includes(value.hostname, <<"t","w","i","t","c","h",".","t","v">>)
              THEN <<>>
         ELSE LET parts == FilterNonEmpty(SplitOn(value.pathname, "/", <<>>)) IN
              IF parts = <<>> THEN <<>>
              ELSE IF IsHandle(parts[1]) THEN parts[1]
              ELSE <<>>

(***************************************************************************)
(* Number formatting (Number.prototype.toString, padStart(2, "0")).        *)
(***************************************************************************)
DigitChar(d) == <<"0","1","2","3","4","5","6","7","8","9">>[d + 1]

RECURSIVE ToChars(_)
ToChars(n) == IF n < 10 THEN <<DigitChar(n)>>
              ELSE Append(ToChars(n \div 10), DigitChar(n % 10))

PadStart2(s) == IF Len(s) < 2 THEN <<"0">> \o s ELSE s

\* A chart label: a text, or the locale clock rendering of a Date (at, in ms).
TextLabel(chars) == [kind |-> "text", text |-> chars, at |-> 0]
ClockLabel(ms) == [kind |-> "clock", text |-> <<>>, at |-> ms]

\* !x for a numeric cell: null and 0 are falsy.
Falsy(x) == x = Null \/ x = 0

\* x || null
OrNull(x) == IF Falsy(x) THEN Null ELSE x

\* The runtime clock without its hours: minutes and seconds in every case.
formatElapsedDropsHours(timestamp, startTs) ==
    IF Falsy(timestamp) THEN TextLabel(<<>>)
    ELSE IF Falsy(startTs) THEN ClockLabel(timestamp * 1000)
    ELSE LET d == timestamp - startTs
             delta == IF d > 0 THEN d ELSE 0
             minutes == (delta % 3600) \div 60
             seconds == delta % 60
         IN TextLabel(PadStart2(ToChars(minutes)) \o <<":">>
                      \o PadStart2(ToChars(seconds)))

formatElapsed(timestamp, startTs) ==
    IF Falsy(timestamp) THEN TextLabel(<<>>)
    ELSE IF Falsy(startTs) THEN ClockLabel(timestamp * 1000)
    ELSE LET d == timestamp - startTs
             delta == IF d > 0 THEN d ELSE 0
             hours == delta \div 3600
             minutes == (delta % 3600) \div 60
             seconds == delta % 60
         IN IF hours # 0
            THEN TextLabel(PadStart2(ToChars(hours)) \o <<":">>
                           \o PadStart2(ToChars(minutes)) \o <<":">>
                           \o PadStart2(ToChars(seconds)))
            ELSE TextLabel(PadStart2(ToChars(minutes)) \o <<":">>
                           \o PadStart2(ToChars(seconds)))

\* Every label taken from the clock, one per second back from now, on each run.
ReconcileLabelsFromClock(prev, rs, points, startTs, now) ==
    LET n == IF Len(points) > 0 THEN Len(points) ELSE Len(rs) IN
    [i \in 1..n |-> ClockLabel(now - (n - i) * 1000)]

\* A shorter rates array cuts the stored labels instead of rebuilding them.
ReconcileLabelsTruncates(prev, rs, points, startTs, now) ==
    IF Len(points) > 0
    THEN [i \in 1..Len(points) |-> formatElapsed(points[i].timestamp, startTs)]
    ELSE IF Len(rs) <= Len(prev) THEN SubSeq(prev, 1, Len(rs))
    ELSE LET additions == Len(rs) - Len(prev) IN
         prev \o [i \in 1..additions |-> ClockLabel(now - (additions - i) * 1000)]

\* The rateLabels effect as it was before ratePoints existed.
ReconcileLabelsRatesOnly(prev, rs, points, startTs, now) ==
    IF Len(rs) < Len(prev)
    THEN [i \in 1..Len(rs) |-> ClockLabel(now - (Len(rs) - i) * 1000)]
    ELSE IF Len(rs) = Len(prev) THEN prev
    ELSE LET additions == Len(rs) - Len(prev) IN
         prev \o [i \in 1..additions |-> ClockLabel(now - (additions - i) * 1000)]

\* The labels kept whenever there are as many of them as ratePoints.
ReconcileLabelsKeepsSameLength(prev, rs, points, startTs, now) ==
    IF Len(points) > 0
    THEN IF Len(points) = Len(prev) THEN prev
         ELSE [i \in 1..Len(points) |-> formatElapsed(points[i].timestamp, startTs)]
    ELSE IF Len(rs) < Len(prev)
         THEN [i \in 1..Len(rs) |-> ClockLabel(now - (Len(rs) - i) * 1000)]
    ELSE IF Len(rs) = Len(prev) THEN prev
    ELSE LET additions == Len(rs) - Len(prev) IN
         prev \o [i \in 1..additions |-> ClockLabel(now - (additions - i) * 1000)]

\* The rateLabels effect: the labels after it ran, prev being the labels before.
ReconcileLabels(prev, rs, points, startTs, now) ==
    IF Len(points) > 0
    THEN [i \in 1..Len(points) |-> formatElapsed(points[i].timestamp, startTs)]
    ELSE IF Len(rs) < Len(prev)
         THEN [i \in 1..Len(rs) |-> ClockLabel(now - (Len(rs) - i) * 1000)]
    ELSE IF Len(rs) = Len(prev) THEN prev
    ELSE LET additions == Len(rs) - Len(prev) IN
         prev \o [i \in 1..additions |-> ClockLabel(now - (additions - i) * 1000)]

(***************************************************************************)
(* History alignment: parseRuntimeSeconds and getClosestHistorySummary.    *)
(***************************************************************************)
DigitValue(c) == CHOOSE d \in 0..9 : DigitChar(d) = c

\* The longest prefix of s made of decimal digits.
RECURSIVE DigitsPrefix(_)
DigitsPrefix(s) ==
    IF s # <<>> /\ Head(s) \in Digit THEN <<Head(s)>> \o DigitsPrefix(Tail(s))
    ELSE <<>>

RECURSIVE DigitsValue(_)
DigitsValue(ds) ==
    IF ds = <<>> THEN 0
    ELSE DigitsValue(SubSeq(ds, 1, Len(ds) - 1)) * 10 + DigitValue(ds[Len(ds)])

\* Number.parseInt(s, 10): leading blanks and one sign are skipped, the digits
\* that follow are the value and whatever comes after them is ignored; NaN
\* when no digit follows.
ParseInt(s) ==
    LET t == TrimLeft(s)
        signed == t # <<>> /\ Head(t) \in {"-", "+"}
        ds == DigitsPrefix(IF signed THEN Tail(t) ELSE t)
    IN IF ds = <<>> THEN [nan |-> TRUE, n |-> 0]
       ELSE [nan |-> FALSE,
             n |-> IF signed /\ Head(t) = "-" THEN 0 - DigitsValue(ds)
                   ELSE DigitsValue(ds)]

\* The result of parseRuntimeSeconds: null, or a number of seconds.
NoRuntime == [parsed |-> FALSE, seconds |-> 0]
Runtime(n) == [parsed |-> TRUE, seconds |-> n]

\* A part that does not parse counts as zero and any number of parts is summed.
parseRuntimeSecondsLenient(value) ==
    IF value = <<>> THEN NoRuntime
    ELSE LET parts == [i \in 1..Len(SplitOn(value, ":", <<>>))
                          |-> ParseInt(SplitOn(value, ":", <<>>)[i])]
         IN IF Len(parts) = 3
            THEN Runtime(parts[1].n * 3600 + parts[2].n * 60 + parts[3].n)
            ELSE IF Len(parts) = 2 THEN Runtime(parts[1].n * 60 + parts[2].n)
            ELSE Runtime(parts[1].n)

parseRuntimeSeconds(value) ==
    IF value = <<>> THEN NoRuntime
    ELSE LET parts == [i \in 1..Len(SplitOn(value, ":", <<>>))
                          |-> ParseInt(SplitOn(value, ":", <<>>)[i])]
         IN IF \E i \in 1..Len(parts) : parts[i].nan THEN NoRuntime
            ELSE IF Len(parts) = 2 THEN Runtime(parts[1].n * 60 + parts[2].n)
            ELSE IF Len(parts) = 3
                 THEN Runtime(parts[1].n * 3600 + parts[2].n * 60 + parts[3].n)
            ELSE NoRuntime

Abs(x) == IF x < 0 THEN 0 - x ELSE x

\* { summary: "", runtime: "" }
EmptyMatch == [summary |-> "", runtime |-> <<>>]

\* The loop of getClosestHistorySummary: found is false while closestDelta is
\* still infinite.
NoClosest == [found |-> FALSE, delta |-> 0, match |-> EmptyMatch]

\* The loop with <= in place of <: the last of the nearest entries wins.
RECURSIVE ScanHistoryLastWins(_, _, _)
ScanHistoryLastWins(items, elapsed, closest) ==
    IF items = <<>> THEN closest
    ELSE LET entry == Head(items)
             runtime == parseRuntimeSeconds(entry.timestamp)
             delta == Abs(runtime.seconds - elapsed)
         IN IF ~runtime.parsed THEN ScanHistoryLastWins(Tail(items), elapsed, closest)
            ELSE IF ~closest.found \/ delta <= closest.delta
                 THEN ScanHistoryLastWins(Tail(items), elapsed,
                          [found |-> TRUE, delta |-> delta,
                           match |-> [summary |-> entry.summary,
                                      runtime |-> entry.timestamp]])
            ELSE ScanHistoryLastWins(Tail(items), elapsed, closest)

RECURSIVE ScanHistory(_, _, _)
ScanHistory(items, elapsed, closest) ==
    IF items = <<>> THEN closest
    ELSE LET entry == Head(items)
             runtime == parseRuntimeSeconds(entry.timestamp)
             delta == Abs(runtime.seconds - elapsed)
         IN IF ~runtime.parsed THEN ScanHistory(Tail(items), elapsed, closest)
            ELSE IF ~closest.found \/ delta < closest.delta
                 THEN ScanHistory(Tail(items), elapsed,
                          [found |-> TRUE, delta |-> delta,
                           match |-> [summary |-> entry.summary,
                                      runtime |-> entry.timestamp]])
            ELSE ScanHistory(Tail(items), elapsed, closest)

\* index counts from 0, as Chart.js numbers the elements of the chart.
getClosestHistorySummary(historyItems, points, startRef, index) ==
    IF Len(points) = 0 \/ index + 1 > Len(points) THEN EmptyMatch
    ELSE LET startTs == IF ~Falsy(startRef) THEN startRef ELSE points[1].timestamp IN
         IF Falsy(startTs) THEN EmptyMatch
         ELSE LET d == points[index + 1].timestamp - startTs
                  elapsed == IF d > 0 THEN d ELSE 0
              IN ScanHistory(historyItems, elapsed, NoClosest).match

(***************************************************************************)
(* The chart (Chart.js instance of chartRef) and the series handed to it.  *)
(***************************************************************************)
\* The display window of the chart data effect.
maxPoints == 20000

Chart(labels, data) == [exists |-> TRUE, labels |-> labels, data |-> data]

\* chartRef.current = null
NoChart == [exists |-> FALSE, labels |-> <<>>, data |-> <<>>]

\* s.slice(-n)
LastN(s, n) == IF Len(s) <= n THEN s ELSE SubSeq(s, Len(s) - n + 1, Len(s))

\* The chart effect of showStreamerPanels: the old chart is destroyed and, in
\* streamer mode, a new one is created with no labels and no data.
MountChart(mode) == IF mode = "streamer" THEN Chart(<<>>, <<>>) ELSE NoChart

\* The chart data effect with the window of the static client.
ChartDataSmallWindow(rs, points, labels) ==
    LET seriesRates == IF Len(points) > 0
                       THEN [i \in 1..Len(points) |-> points[i].rate]
                       ELSE rs
    IN Chart(LastN(labels, 100), LastN(seriesRates, 100))

\* The chart data effect: the labels and the data it hands to the chart.
ChartData(rs, points, labels) ==
    LET seriesRates == IF Len(points) > 0
                       THEN [i \in 1..Len(points) |-> points[i].rate]
                       ELSE rs
    IN Chart(LastN(labels, maxPoints), LastN(seriesRates, maxPoints))

\* The display window of the static client's chart.
staticMaxPoints == 100

\* updateRateChart of the static client: the chart after it ran.  The labels
\* are the positions of the samples in the rates array, counted from 1.
updateRateChart(current, rs) ==
    IF ~current.exists \/ Len(rs) = 0 THEN current
    ELSE LET displayRates == LastN(rs, staticMaxPoints) IN
         Chart([index \in 1..Len(displayRates)
                   |-> Len(rs) - Len(displayRates) + (index - 1) + 1],
               displayRates)

\* No export has handed a file to the browser.
NoFile == [name |-> "", csv |-> <<>>]

(***************************************************************************)
(* CSV export (handleExportTimestamps, handleExportRates).  A file is its  *)
(* download name and its text, one character per element.                  *)
(***************************************************************************)
\* rows.join("\n") over rows[lo..hi].
RECURSIVE JoinRows(_, _, _)
JoinRows(rows, lo, hi) ==
    IF lo > hi THEN <<>>
    ELSE IF lo = hi THEN rows[lo]
    ELSE LET mid == (lo + hi) \div 2 IN
         JoinRows(rows, lo, mid) \o <<"\n">> \o JoinRows(rows, mid + 1, hi)

\* s.replace('"', '""'): the first double quote only.
RECURSIVE EscapeFirstQuote(_)
EscapeFirstQuote(s) ==
    IF s = <<>> THEN <<>>
    ELSE IF Head(s) = "\"" THEN <<"\"", "\"">> \o Tail(s)
    ELSE <<Head(s)>> \o EscapeFirstQuote(Tail(s))

\* s.replace(/"/g, '""')
RECURSIVE EscapeQuotes(_)
EscapeQuotes(s) ==
    IF s = <<>> THEN <<>>
    ELSE IF Head(s) = "\"" THEN <<"\"", "\"">> \o EscapeQuotes(Tail(s))
    ELSE <<Head(s)>> \o EscapeQuotes(Tail(s))

\* `"${a}","${b}"`
Row(a, b) == <<"\"">> \o a \o <<"\"", ",", "\"">> \o b \o <<"\"">>

\* The text handleExportTimestamps builds from the stored events; an event
\* without a timestamp or a keyword carries the empty text there.
TimestampsCsv(evs) ==
    LET header == <<"t","i","m","e","s","t","a","m","p",",",
                    "k","e","y","w","o","r","d","\n">>
        rows == [i \in 1..Len(evs)
                    |-> Row(evs[i].timestamp, EscapeQuotes(evs[i].keyword))]
    IN header \o JoinRows(rows, 1, Len(rows))

\* Date.prototype.toLocaleTimeString of the Date at ms, in a 24-hour locale
\* on UTC: the time of day as hh:mm:ss.
LocaleTime(ms) ==
    LET s == (ms \div 1000) % 86400 IN
    PadStart2(ToChars(s \div 3600)) \o <<":">>
    \o PadStart2(ToChars((s % 3600) \div 60)) \o <<":">>
    \o PadStart2(ToChars(s % 60))

\* The text of a label.
LabelText(label) == IF label.kind = "text" THEN label.text ELSE LocaleTime(label.at)

\* handleExportRates taking the rates array whenever it has elements.
RatesCsvPrefersRates(points, rs, startTs) ==
    LET header == <<"e","l","a","p","s","e","d",",","r","a","t","e","\n">>
        rows == [i \in 1..Len(points)
                    |-> Row(LabelText(formatElapsed(points[i].timestamp, startTs)),
                            ToChars(points[i].rate))]
        fallbackRows == IF Len(rs) # 0
                        THEN [i \in 1..Len(rs) |-> Row(ToChars(i - 1), ToChars(rs[i]))]
                        ELSE rows
    IN header \o JoinRows(fallbackRows, 1, Len(fallbackRows))

\* The text handleExportRates builds from the stored ratePoints, rates and
\* streamStartTs.
RatesCsv(points, rs, startTs) ==
    LET header == <<"e","l","a","p","s","e","d",",","r","a","t","e","\n">>
        rows == [i \in 1..Len(points)
                    |-> Row(LabelText(formatElapsed(points[i].timestamp, startTs)),
                            ToChars(points[i].rate))]
        fallbackRows == IF Len(rows) = 0 /\ Len(rs) # 0
                        THEN [i \in 1..Len(rs) |-> Row(ToChars(i - 1), ToChars(rs[i]))]
                        ELSE rows
    IN header \o JoinRows(fallbackRows, 1, Len(fallbackRows))

(***************************************************************************)
(* Bags of closures.                                                       *)
(***************************************************************************)
RECURSIVE SumOver(_, _)
SumOver(S, B) ==
    IF S = {} THEN 0
    ELSE LET x == CHOOSE y \in S : TRUE IN B[x] + SumOver(S \ {x}, B)

(***************************************************************************)
(* Configurations and requests.                                            *)
(***************************************************************************)
Modes == {"general", "streamer"}

Config(id, source, mode, keywords, threshold) ==
    [id |-> id, source |-> source, mode |-> mode, keywords |-> keywords,
     threshold |-> threshold]

\* The active configuration, as the poll effect's dependency list reads it.
ActiveConfig ==
    Config(activeStreamId, activeSource, activeMode, activeKeywords, activeThreshold)

\* The identity key of a stream, `${source}:${id}`; the empty key stands for
\* the empty string the code compares with when nothing is active.
NoKey == <<>>

IdentityKey(cfg) == IF cfg.id # <<>> THEN <<cfg.source, cfg.id>> ELSE NoKey

\* The query with the keyword parameters sent in every mode.
RequestUrlAnyMode(cfg) ==
    [videoId |-> cfg.id,
     mode |-> cfg.mode,
     source |-> cfg.source,
     keywords |-> IF cfg.keywords # "" THEN {cfg.keywords} ELSE {},
     keywordThreshold |-> {cfg.threshold}]

\* The query of GET /api/summary built from a configuration.  Each parameter
\* is the value before encodeURIComponent; an optional parameter is a set
\* holding the value when the parameter is sent.
RequestUrl(cfg) ==
    [videoId |-> cfg.id,
     mode |-> cfg.mode,
     source |-> cfg.source,
     keywords |-> IF cfg.mode = "streamer" /\ cfg.keywords # ""
                  THEN {cfg.keywords} ELSE {},
     keywordThreshold |-> IF cfg.mode = "streamer" THEN {cfg.threshold} ELSE {}]

\* A request awaiting its response.  cfg and active are the variables of the
\* effect closure that issued it; superseded records whether the poll effect
\* has been torn down since (history, not read by the program).
Request(cfg, active, superseded) ==
    [cfg |-> cfg, url |-> RequestUrl(cfg), active |-> active,
     superseded |-> superseded]

\* A pending timer of an effect closure.
Timer(cfg, active, superseded, delay) ==
    [cfg |-> cfg, active |-> active, superseded |-> superseded, delay |-> delay]

(***************************************************************************)
(* What the user can type and what the server can answer.                  *)
(***************************************************************************)
VideoRef == <<"a","b","c","d","e","f","g","h","i","j","k">>
ChannelRef == <<"c","h","_","1">>

\* https://youtu.be/abcdefghijk
ShortLink ==
    Url(<<"h","t","t","p","s",":","/","/","y","o","u","t","u",".","b","e","/">>
            \o VideoRef,
        <<"y","o","u","t","u",".","b","e">>, <<"/">> \o VideoRef, FALSE, <<>>)

Inputs == {Text(VideoRef), Text(ChannelRef), Text(<<"n","o"," ","i","d">>),
           ShortLink}

KeywordChoices == {"", "clutch"}
ThresholdChoices == {"2", "3"}

\* A payload.  A list field that the JSON leaves out is the empty sequence
\* here.  texts names the list fields that the JSON holds as a string and not
\* as an array: the value of such a field is the text, one character per
\* element.
Payload(sm, ev, hist, title, channel, rs, points, start, upd, err) ==
    [summary |-> sm, events |-> ev, summaryHistory |-> hist, videoTitle |-> title,
     videoChannel |-> channel, rates |-> rs, ratePoints |-> points,
     streamStartTs |-> start, updatedAt |-> upd, error |-> err, texts |-> {}]

\* x || [] for a list field: an array, even an empty one, and a non-empty
\* string are kept; the empty string and a field left out give [].
OrEmptyList(x) == x

\* Array.isArray(x) ? x : [] for the list field named field of payload.
ArrayOrEmpty(payload, field) ==
    IF field \in payload.texts THEN <<>> ELSE payload[field]

NoPayload == Payload("", <<>>, <<>>, "", "", <<>>, <<>>, Null, Null, "")

\* Legacy shape: a rates array, no ratePoints.
LegacyPayload ==
    Payload("s1",
            <<[timestamp |-> <<"0","0",":","1","2">>, keyword |-> <<"c","l","u","t","c","h">>]>>,
            <<[timestamp |-> <<"0","1",":","0","0">>, summary |-> "h1"]>>,
            "T1", "C1", <<1, 2>>, <<>>, Null, 1100, "")

\* Preferred shape: timestamped points and a stream start; no summary yet.
PointsPayload ==
    Payload("", <<>>, <<>>, "", "", <<>>,
            <<[timestamp |-> 1000, rate |-> 1], [timestamp |-> 1090, rate |-> 3]>>,
            1000, 0, "")

Payloads == {LegacyPayload, PointsPayload}

\* Preferred shape while the server does not know the stream start yet.
UnanchoredPayload ==
    Payload("", <<>>, <<>>, "", "", <<>>, <<[timestamp |-> 1000, rate |-> 1]>>,
            Null, 0, "")

\* PointsPayload one sample later.
GrownPayload ==
    Payload("", <<>>, <<>>, "", "", <<>>,
            <<[timestamp |-> 1000, rate |-> 1], [timestamp |-> 1090, rate |-> 3],
              [timestamp |-> 1100, rate |-> 2]>>,
            1000, 0, "")

\* Legacy shape with a rates array of n samples.
RatesPayload(n) ==
    Payload("", <<>>, <<>>, "", "", [i \in 1..n |-> i], <<>>, Null, 0, "")

\* A response: whether fetch resolved (message: the rejection's message when it
\* did not), response.ok, the kind of body, and the payload a JSON body parses to.
Response(resolved, message, ok, body, payload) ==
    [resolved |-> resolved, message |-> message, ok |-> ok, body |-> body,
     payload |-> payload]

Responses ==
    {Response(TRUE, "", TRUE, "json", p) : p \in Payloads}
    \cup {Response(FALSE, "", FALSE, "empty", NoPayload),
          Response(TRUE, "", TRUE, "empty", NoPayload),
          Response(TRUE, "", TRUE, "garbage", NoPayload),
          Response(TRUE, "", FALSE, "json", NoPayload),
          Response(TRUE, "", TRUE, "json", [LegacyPayload EXCEPT !.error = "quota"])}

\* Date.now() at the moments the rateLabels effect can run.
NowValues == {60000}

ThrownIgnoringErrorField(resp) ==
    IF ~resp.resolved THEN [threw |-> TRUE, message |-> resp.message]
    ELSE IF resp.body = "empty"
         THEN [threw |-> TRUE, message |-> "Empty response from server."]
    ELSE IF resp.body = "garbage"
         THEN [threw |-> TRUE, message |-> "Unexpected token"]
    ELSE IF ~resp.ok
         THEN [threw |-> TRUE, message |-> "Unable to fetch summary."]
    ELSE [threw |-> FALSE, message |-> ""]

\* What the try block of fetchSummary throws for a response, if anything.
Thrown(resp) ==
    IF ~resp.resolved THEN [threw |-> TRUE, message |-> resp.message]
    ELSE IF resp.body = "empty"
         THEN [threw |-> TRUE, message |-> "Empty response from server."]
    ELSE IF resp.body = "garbage"
         THEN [threw |-> TRUE, message |-> "Unexpected token"]
    ELSE IF ~resp.ok \/ resp.payload.error # ""
         THEN [threw |-> TRUE,
               message |-> IF resp.payload.error # "" THEN resp.payload.error
                           ELSE "Unable to fetch summary."]
    ELSE [threw |-> FALSE, message |-> ""]

\* err.message || "Unable to fetch summary."
ErrorText(message) == IF message # "" THEN message ELSE "Unable to fetch summary."

\* x with no fallback.
OrElseKeepsEmpty(x, fallback) == x

\* x || fallback, for a string
OrElse(x, fallback) == IF x # "" THEN x ELSE fallback

NoResponse == Response(FALSE, "", FALSE, "none", NoPayload)

NothingDrawn == [labels |-> 0, data |-> 0]

\* The last event handled: its kind, a detail, whether the closure it ran in had
\* been torn down, the timers a cleanup cancelled, the response delivered, and
\* the ratePoints and streamStartTs that were stored when the response arrived
\* (the rateLabels effect that follows keeps these two, and adds the labels
\* that were stored when it ran); for a hover, the index of the element under
\* the pointer and what getClosestHistorySummary returned for it; for the
\* effects of a render, the sizes of the label list and of the data list that
\* the chart data effect wrote first (see FlushEffectsAt).
Event(op, arg) ==
    [op |-> op, arg |-> arg, stale |-> FALSE, cancelled |-> 0, resp |-> NoResponse,
     points |-> <<>>, start |-> Null, labels |-> <<>>,
     index |-> 0, match |-> EmptyMatch, drawn |-> NothingDrawn]

(***************************************************************************)
(* The static client (static/app.js): what it reads and writes.           *)
(***************************************************************************)
\* The form controls are read by the handlers and written by the user, and
\* by reset.
Controls(link, mode, keywords, threshold) ==
    [link |-> link, mode |-> mode, keywords |-> keywords, threshold |-> threshold]

\* updateSummary: the text shown for a summary (its lines are listed as they
\* are; no summary shows the placeholder).
updateSummary(text) ==
    IF text = "" THEN "Waiting for the first summary..." ELSE text

\* The page as reset leaves it, which is how it loads.
ClearedPage ==
    [statusPill |-> "Idle", errorText |-> "", summaryContent |-> updateSummary(""),
     eventsContent |-> <<>>, historyContent |-> <<>>,
     videoTitle |-> "Waiting...", videoChannel |-> "Waiting...",
     videoPill |-> <<>>, updatedPill |-> Null]

\* The query of GET /api/summary built by the static client.
StaticUrl(id, mode, keywords, threshold) ==
    [videoId |-> id,
     mode |-> mode,
     keywords |-> IF mode = "streamer" /\ keywords # "" THEN {keywords} ELSE {},
     keywordThreshold |-> IF mode = "streamer" THEN {threshold} ELSE {}]

\* A pending timer; current says that pollTimer holds its handle.
StaticTimer(current) == [current |-> current]

\* The module variables and the page after the script has loaded
\* (app.js 21-26, 406-408).
StaticInit ==
    /\ pollTimer = "null"
    /\ currentVideoId = <<>>
    /\ currentMode = "general"
    /\ currentKeywords = ""
    /\ currentThreshold = "2"
    /\ controls = Controls(Text(<<>>), "general", "", "2")
    /\ page = ClearedPage
    /\ fetches = EmptyBag
    /\ staticTimers = EmptyBag

(***************************************************************************)
(* Initial state: the useState initialisers (App.jsx 81-103).               *)
(***************************************************************************)
Init ==
    /\ isEditing = TRUE
    /\ draftInput = Text(<<>>)
    /\ draftSource = "youtube"
    /\ draftMode = "general"
    /\ draftKeywords = ""
    /\ draftThreshold = "2"
    /\ activeStreamId = <<>>
    /\ activeSource = "youtube"
    /\ activeMode = "general"
    /\ activeKeywords = ""
    /\ activeThreshold = "2"
    /\ status = "Idle"
    /\ error = ""
    /\ summary = ""
    /\ events = <<>>
    /\ history = <<>>
    /\ videoTitle = "Waiting..."
    /\ videoChannel = "Waiting..."
    /\ updatedAt = Null
    /\ rates = <<>>
    /\ rateLabels = <<>>
    /\ ratePoints = <<>>
    /\ streamStartTs = Null
    /\ inflight = EmptyBag
    /\ timers = EmptyBag
    /\ chart = NoChart
    /\ hoveredSummary = ""
    /\ hoveredRuntime = <<>>
    /\ download = NoFile
    /\ rateChart = Chart(<<>>, <<>>)
    /\ pendingEffects = {}
    /\ edits = 0
    /\ seriesKey = NoKey
    /\ StaticInit
    /\ last = Event("init", "")

(***************************************************************************)
(* Draft form inputs: each writes one draft cell.                          *)
(***************************************************************************)
Idle == pendingEffects = {}

\* A draft edit that also clears the error line.
StageEditClearsError(field) ==
    /\ edits < MaxEdits
    /\ edits' = edits + 1
    /\ error' = ""
    /\ last' = Event("stageEdit", field)
    /\ UNCHANGED <<seriesKey, staticVars, isEditing, activeVars, status, seriesVars, pollVars,
                   chart, viewVars, pendingEffects>>

StageEdit(field) ==
    /\ edits < MaxEdits
    /\ edits' = edits + 1
    /\ last' = Event("stageEdit", field)
    /\ UNCHANGED <<seriesKey, staticVars, isEditing, activeVars, status, error, seriesVars, pollVars,
                   chart, viewVars, pendingEffects>>

SetDraftInput(v) ==
    /\ isEditing /\ Idle
    /\ draftInput' = v
    /\ UNCHANGED <<draftSource, draftMode, draftKeywords, draftThreshold>>
    /\ StageEdit("input")

ToggleDraftSource ==
    /\ isEditing /\ Idle
    /\ draftSource' = IF draftSource = "youtube" THEN "twitch" ELSE "youtube"
    /\ UNCHANGED <<draftInput, draftMode, draftKeywords, draftThreshold>>
    /\ StageEdit("source")

SetDraftMode(m) ==
    /\ isEditing /\ Idle
    /\ draftMode' = m
    /\ UNCHANGED <<draftInput, draftSource, draftKeywords, draftThreshold>>
    /\ StageEdit("mode")

\* The keyword panel is rendered only while the draft mode is streamer.
SetDraftKeywords(k) ==
    /\ isEditing /\ Idle
    /\ draftMode = "streamer"
    /\ draftKeywords' = k
    /\ UNCHANGED <<draftInput, draftSource, draftMode, draftThreshold>>
    /\ StageEdit("keywords")

SetDraftThreshold(t) ==
    /\ isEditing /\ Idle
    /\ draftMode = "streamer"
    /\ draftThreshold' = t
    /\ UNCHANGED <<draftInput, draftSource, draftMode, draftKeywords>>
    /\ StageEdit("threshold")

\* The Edit button of the compact view: the draft is loaded from the active cells.
EditClick ==
    /\ ~isEditing /\ Idle
    /\ draftInput' = Text(activeStreamId)
    /\ draftSource' = activeSource
    /\ draftMode' = activeMode
    /\ draftKeywords' = activeKeywords
    /\ draftThreshold' = activeThreshold
    /\ isEditing' = TRUE
    /\ last' = Event("edit", "")
    /\ UNCHANGED <<seriesKey, staticVars, activeVars, status, error, seriesVars, pollVars, chart,
                   viewVars, pendingEffects, edits>>

(***************************************************************************)
(* handleSubmit and handleReset.                                           *)
(***************************************************************************)
InvalidReferenceMessageOnePlatform(source) ==
    "Paste a valid YouTube livestream link or video ID."

InvalidReferenceMessage(source) ==
    IF source = "youtube"
    THEN "Paste a valid YouTube livestream link or video ID."
    ELSE "Paste a valid Twitch channel or link."

ParseReference(source, value) ==
    IF source = "youtube" THEN parseVideoId(value) ELSE parseTwitchChannel(value)

StreamNeverChanged(nextKey, currentKey) == FALSE

StreamAlwaysChanged(nextKey, currentKey) == TRUE

\* The comparison of the references alone, the sources left out.
StreamChangedIgnoresSource(nextKey, currentKey) ==
    currentKey = <<>> \/ nextKey[2] # currentKey[2]

StreamChanged(nextKey, currentKey) == nextKey # currentKey

\* The effects whose dependency lists changed.
EffectsAfter(nextConfig, seriesWritten) ==
    (IF nextConfig # ActiveConfig THEN {"poll"} ELSE {})
    \cup (IF seriesWritten THEN {"labels"} ELSE {})
    \cup (IF (nextConfig.mode = "streamer") # (activeMode = "streamer")
          THEN {"mount"} ELSE {})

\* handleSubmit announcing a commit only when the stream changed.
HandleSubmitQuietOnSameStream ==
    /\ isEditing /\ Idle
    /\ draftInput.text # <<>>                  \* the input is `required`
    /\ BagCardinality(inflight) < MaxInFlight
    /\ UNCHANGED <<seriesKey, staticVars, chart, viewVars, edits>>
    /\ LET id == ParseReference(draftSource, draftInput) IN
       IF id = <<>>
       THEN /\ error' = InvalidReferenceMessage(draftSource)
            /\ last' = Event("reject", draftSource)
            /\ UNCHANGED <<isEditing, draftVars, activeVars, status, seriesVars,
                           pollVars, pendingEffects>>
       ELSE LET nextKey == <<draftSource, id>>
                currentKey == IF activeStreamId # <<>>
                              THEN <<activeSource, activeStreamId>> ELSE <<>>
                streamChanged == StreamChanged(nextKey, currentKey)
                next == Config(id, draftSource, draftMode, draftKeywords,
                               draftThreshold)
            IN /\ IF streamChanged
                  THEN /\ summary' = ""
                       /\ events' = <<>>
                       /\ history' = <<>>
                       /\ rates' = <<>>
                       /\ rateLabels' = <<>>
                       /\ ratePoints' = <<>>
                       /\ streamStartTs' = Null
                       /\ updatedAt' = Null
                       /\ videoTitle' = "Waiting..."
                       /\ videoChannel' = "Waiting..."
                  ELSE UNCHANGED seriesVars
               /\ activeStreamId' = id
               /\ activeSource' = draftSource
               /\ activeMode' = draftMode
               /\ activeKeywords' = draftKeywords
               /\ activeThreshold' = draftThreshold
               /\ status' = IF streamChanged THEN "Connecting" ELSE status
               /\ error' = IF streamChanged THEN "" ELSE error
               /\ isEditing' = FALSE
               /\ pendingEffects' = EffectsAfter(next, streamChanged)
               /\ last' = Event("commit", IF nextKey # currentKey THEN "new" ELSE "same")
               /\ UNCHANGED <<draftVars, pollVars>>

HandleSubmit ==
    /\ isEditing /\ Idle
    /\ draftInput.text # <<>>                  \* the input is `required`
    /\ BagCardinality(inflight) < MaxInFlight
    /\ UNCHANGED <<seriesKey, staticVars, chart, viewVars, edits>>
    /\ LET id == ParseReference(draftSource, draftInput) IN
       IF id = <<>>
       THEN /\ error' = InvalidReferenceMessage(draftSource)
            /\ last' = Event("reject", draftSource)
            /\ UNCHANGED <<isEditing, draftVars, activeVars, status, seriesVars,
                           pollVars, pendingEffects>>
       ELSE LET nextKey == <<draftSource, id>>
                currentKey == IF activeStreamId # <<>>
                              THEN <<activeSource, activeStreamId>> ELSE <<>>
                streamChanged == StreamChanged(nextKey, currentKey)
                next == Config(id, draftSource, draftMode, draftKeywords,
                               draftThreshold)
            IN /\ IF streamChanged
                  THEN /\ summary' = ""
                       /\ events' = <<>>
                       /\ history' = <<>>
                       /\ rates' = <<>>
                       /\ rateLabels' = <<>>
                       /\ ratePoints' = <<>>
                       /\ streamStartTs' = Null
                       /\ updatedAt' = Null
                       /\ videoTitle' = "Waiting..."
                       /\ videoChannel' = "Waiting..."
                  ELSE UNCHANGED seriesVars
               /\ activeStreamId' = id
               /\ activeSource' = draftSource
               /\ activeMode' = draftMode
               /\ activeKeywords' = draftKeywords
               /\ activeThreshold' = draftThreshold
               /\ status' = "Connecting"
               /\ error' = ""
               /\ isEditing' = FALSE
               /\ pendingEffects' = EffectsAfter(next, streamChanged)
               /\ last' = Event("commit", IF nextKey # currentKey THEN "new" ELSE "same")
               /\ UNCHANGED <<draftVars, pollVars>>

\* The reset that leaves the status line as it was.
HandleResetKeepsStatus ==
    /\ isEditing /\ Idle
    /\ draftInput' = Text(<<>>)
    /\ draftSource' = "youtube"
    /\ draftMode' = "general"
    /\ draftKeywords' = ""
    /\ draftThreshold' = "2"
    /\ activeStreamId' = <<>>
    /\ activeSource' = "youtube"
    /\ activeMode' = "general"
    /\ activeKeywords' = ""
    /\ activeThreshold' = "2"
    /\ error' = ""
    /\ summary' = ""
    /\ events' = <<>>
    /\ history' = <<>>
    /\ rates' = <<>>
    /\ rateLabels' = <<>>
    /\ ratePoints' = <<>>
    /\ streamStartTs' = Null
    /\ videoTitle' = "Waiting..."
    /\ videoChannel' = "Waiting..."
    /\ updatedAt' = Null
    /\ isEditing' = TRUE
    /\ pendingEffects' = EffectsAfter(Config(<<>>, "youtube", "general", "", "2"), TRUE)
    /\ chart' = IF chart.exists THEN Chart(<<>>, <<>>) ELSE chart
    /\ last' = Event("reset", "")
    /\ UNCHANGED <<seriesKey, staticVars, status, pollVars, viewVars, edits>>

HandleReset ==
    /\ isEditing /\ Idle
    /\ draftInput' = Text(<<>>)
    /\ draftSource' = "youtube"
    /\ draftMode' = "general"
    /\ draftKeywords' = ""
    /\ draftThreshold' = "2"
    /\ activeStreamId' = <<>>
    /\ activeSource' = "youtube"
    /\ activeMode' = "general"
    /\ activeKeywords' = ""
    /\ activeThreshold' = "2"
    /\ status' = "Idle"
    /\ error' = ""
    /\ summary' = ""
    /\ events' = <<>>
    /\ history' = <<>>
    /\ rates' = <<>>
    /\ rateLabels' = <<>>
    /\ ratePoints' = <<>>
    /\ streamStartTs' = Null
    /\ videoTitle' = "Waiting..."
    /\ videoChannel' = "Waiting..."
    /\ updatedAt' = Null
    /\ isEditing' = TRUE
    /\ pendingEffects' = EffectsAfter(Config(<<>>, "youtube", "general", "", "2"), TRUE)
    /\ chart' = IF chart.exists THEN Chart(<<>>, <<>>) ELSE chart
    /\ last' = Event("reset", "")
    /\ UNCHANGED <<seriesKey, staticVars, pollVars, viewVars, edits>>

(***************************************************************************)
(* The poll effect (App.jsx 513-578): cleanup, fetchSummary, timer.         *)
(***************************************************************************)
Deactivate(c) == [c EXCEPT !.active = FALSE]
Supersede(c) == [c EXCEPT !.superseded = TRUE]
IsLive(c) == c.active

\* Every closure of a bag with its active flag cleared.
DeactivateAll(B) ==
    [y \in {Deactivate(x) : x \in DOMAIN B}
        |-> SumOver({x \in DOMAIN B : Deactivate(x) = y}, B)]

\* Every closure of a bag marked as belonging to a torn-down effect.
SupersedeAll(B) ==
    [y \in {Supersede(x) : x \in DOMAIN B}
        |-> SumOver({x \in DOMAIN B : Supersede(x) = y}, B)]

\* clearTimeout left out: every timer stays.
WithLive(B) == B

\* A bag of timers without the timer of the live closure.
WithoutLive(B) == [x \in {y \in DOMAIN B : ~IsLive(y)} |-> B[x]]

\* A cleanup that clears the timer and leaves the active flag set.
PollCleanupLeavesActive(requests, pending) ==
    [inflight |-> requests, timers |-> WithoutLive(pending)]

PollCleanupKeepsTimer(requests, pending) ==
    [inflight |-> DeactivateAll(requests), timers |-> DeactivateAll(pending)]

\* The effect's cleanup: active = false; if (timerId) clearTimeout(timerId).
\* Only the closure of the effect being torn down has active = true, and its
\* timerId is its pending timer.
PollCleanup(requests, pending) ==
    [inflight |-> DeactivateAll(requests),
     timers |-> DeactivateAll(WithoutLive(pending))]

DiscardsEverything(closure) == TRUE

DiscardsNothing(closure) == FALSE

\* if (!active) return
Discards(closure) == ~closure.active

ScheduleNothing(closure) == EmptyBag

\* A second timer set beside the first.
ScheduleTwice(closure) ==
    SetToBag({Timer(closure.cfg, closure.active, closure.superseded, PollDelay)})
    (+) SetToBag({Timer(closure.cfg, closure.active, closure.superseded, PollDelay)})

\* timerId = window.setTimeout(fetchSummary, 8000)
ScheduleNext(closure) ==
    SetToBag({Timer(closure.cfg, closure.active, closure.superseded, PollDelay)})

IssueRequestFromDraft(closure, requests) ==
    requests (+) SetToBag({Request(Config(closure.cfg.id, draftSource, draftMode,
                                          draftKeywords, draftThreshold),
                                   closure.active, closure.superseded)})

\* The first part of fetchSummary, up to the fetch call, run in a closure.
IssueRequest(closure, requests) ==
    requests (+) SetToBag({Request(closure.cfg, closure.active, closure.superseded)})

\* The configuration a poll effect captures when it starts.
Captured == ActiveConfig

\* The sizes of the lists of one chart write; no write.
Sizes(written) == [labels |-> Len(written.labels), data |-> Len(written.data)]

\* The chart data effect runs in the render that changed rates, next to the
\* rateLabels effect and after it: setRateLabels has been called but the
\* rateLabels of this render are still those of the render before.  It
\* writes the new data with these labels; the render that follows with the
\* new labels runs it again, which gives chart' below.
FirstChartWrite(effects) ==
    LET mounted == IF "mount" \in effects THEN MountChart(activeMode) ELSE chart IN
    IF "labels" \in effects /\ mounted.exists
    THEN Sizes(ChartData(rates, ratePoints, rateLabels))
    ELSE NothingDrawn

FlushEffectsAt(now) ==
    /\ pendingEffects # {}
    /\ IF "labels" \in pendingEffects
       THEN rateLabels' = ReconcileLabels(rateLabels, rates, ratePoints,
                                          streamStartTs, now)
       ELSE UNCHANGED rateLabels
    /\ LET mounted == IF "mount" \in pendingEffects THEN MountChart(activeMode)
                      ELSE chart
       IN chart' = IF "labels" \in pendingEffects /\ mounted.exists
                   THEN ChartData(rates, ratePoints, rateLabels')
                   ELSE mounted
    /\ IF "poll" \in pendingEffects
       THEN LET cleaned == PollCleanup(inflight, timers)
                oldRequests == SupersedeAll(cleaned.inflight)
                oldTimers == SupersedeAll(cleaned.timers)
                cancelled == BagCardinality(timers) - BagCardinality(cleaned.timers)
            IN /\ timers' = oldTimers
               /\ last' = [Event("effects", "poll")
                             EXCEPT !.cancelled = cancelled,
                                    !.drawn = FirstChartWrite(pendingEffects)]
               /\ IF activeStreamId # <<>>
                  THEN /\ status' = "Updating"
                       /\ error' = ""
                       /\ inflight' = IssueRequest(
                              [cfg |-> Captured, active |-> TRUE, superseded |-> FALSE],
                              oldRequests)
                  ELSE /\ inflight' = oldRequests
                       /\ UNCHANGED <<status, error>>
       ELSE /\ last' = [Event("effects", "labels")
                         EXCEPT !.points = last.points, !.start = last.start,
                                !.labels = rateLabels,
                                !.drawn = FirstChartWrite(pendingEffects)]
            /\ UNCHANGED <<status, error, pollVars>>
    /\ pendingEffects' = {}
    /\ UNCHANGED <<seriesKey, staticVars, isEditing, draftVars, activeVars, summary, events, history,
                   videoTitle, videoChannel, updatedAt, rates, ratePoints,
                   streamStartTs, viewVars, edits>>

FlushEffects == \E now \in NowValues : FlushEffectsAt(now)

\* A pending timer fires: fetchSummary runs in the closure that set the timer.
TimerFire(t) ==
    /\ Idle
    /\ BagIn(t, timers)
    /\ timers' = timers (-) SetToBag({t})
    /\ status' = "Updating"
    /\ error' = ""
    /\ inflight' = IssueRequest(t, inflight)
    /\ last' = [Event("tick", "") EXCEPT !.stale = t.superseded]
    /\ UNCHANGED <<seriesKey, staticVars, isEditing, draftVars, activeVars, seriesVars, chart, viewVars,
                   pendingEffects, edits>>

\* The response of request r arrives: the rest of fetchSummary runs.
Respond(r, resp) ==
    /\ Idle
    /\ BagIn(r, inflight)
    /\ inflight' = inflight (-) SetToBag({r})
    /\ LET thrown == Thrown(resp)
           payload == resp.payload
       IN /\ last' = [Event("resp", IF thrown.threw THEN "fail" ELSE "ok")
                         EXCEPT !.stale = r.superseded, !.resp = resp,
                                !.points = ratePoints, !.start = streamStartTs]
          /\ IF Discards(r)
             THEN UNCHANGED <<status, error, seriesVars, timers, pendingEffects,
                              seriesKey>>
             ELSE IF thrown.threw
             THEN /\ status' = "Offline"
                  /\ error' = ErrorText(thrown.message)
                  /\ timers' = timers (+) ScheduleNext(r)
                  /\ UNCHANGED <<seriesVars, pendingEffects, seriesKey>>
             ELSE /\ summary' = payload.summary
                  /\ events' = OrEmptyList(payload.events)
                  /\ history' = OrEmptyList(payload.summaryHistory)
                  /\ videoTitle' = OrElse(payload.videoTitle, "Unknown")
                  /\ videoChannel' = OrElse(payload.videoChannel, "Unknown")
                  /\ rates' = ArrayOrEmpty(payload, "rates")
                  /\ ratePoints' = ArrayOrEmpty(payload, "ratePoints")
                  /\ streamStartTs' = OrNull(payload.streamStartTs)
                  /\ status' = IF payload.summary # "" THEN "Live" ELSE "Waiting"
                  /\ updatedAt' = OrNull(payload.updatedAt)
                  /\ timers' = timers (+) ScheduleNext(r)
                  /\ pendingEffects' = {"labels"}
                  /\ seriesKey' = IdentityKey(r.cfg)
                  /\ UNCHANGED <<error, rateLabels>>
    /\ UNCHANGED <<isEditing, draftVars, activeVars, chart, viewVars, edits,
                   staticVars>>

(***************************************************************************)
(* The onHover handler of the chart (App.jsx 439-463).                     *)
(***************************************************************************)
\* The pointer is over the element at index (counted from 0).
ChartHover(index) ==
    /\ Idle
    /\ chart.exists
    /\ index \in 0..(Len(chart.data) - 1)
    /\ LET match == getClosestHistorySummary(history, ratePoints, streamStartTs,
                                             index)
       IN /\ IF match.summary = ""
             THEN /\ hoveredSummary' = "No summary history yet."
                  /\ hoveredRuntime' = <<>>
             ELSE /\ hoveredSummary' = match.summary
                  /\ hoveredRuntime' = match.runtime
          /\ last' = [Event("hover", "") EXCEPT !.index = index, !.match = match]
    /\ UNCHANGED <<seriesKey, staticVars, isEditing, draftVars, activeVars, status, error, seriesVars,
                   pollVars, chart, download, rateChart, pendingEffects, edits>>

\* The pointer is over no element of the chart.
HoverAway ==
    /\ Idle
    /\ chart.exists
    /\ hoveredSummary' = ""
    /\ hoveredRuntime' = <<>>
    /\ last' = Event("hover", "away")
    /\ UNCHANGED <<seriesKey, staticVars, isEditing, draftVars, activeVars, status, error, seriesVars,
                   pollVars, chart, download, rateChart, pendingEffects, edits>>

(***************************************************************************)
(* The Export CSV buttons of the streamer panels (App.jsx 984-992,         *)
(* 1022-1030).  A click on a disabled button reaches no handler, and the   *)
(* handler returns at once on an empty source: either way nothing changes. *)
(***************************************************************************)
HandleExportTimestamps ==
    /\ Idle
    /\ activeMode = "streamer"
    /\ download' = IF Len(events) = 0 THEN download
                   ELSE [name |-> "keyword-timestamps.csv",
                         csv |-> TimestampsCsv(events)]
    /\ last' = Event("export", "timestamps")
    /\ UNCHANGED <<seriesKey, staticVars, isEditing, draftVars, activeVars, status, error, seriesVars,
                   pollVars, chart, hoveredSummary, hoveredRuntime, rateChart,
                   pendingEffects, edits>>

HandleExportRates ==
    /\ Idle
    /\ activeMode = "streamer"
    /\ download' = IF Len(ratePoints) = 0 /\ Len(rates) = 0 THEN download
                   ELSE [name |-> "chat-velocity.csv",
                         csv |-> RatesCsv(ratePoints, rates, streamStartTs)]
    /\ last' = Event("export", "rates")
    /\ UNCHANGED <<seriesKey, staticVars, isEditing, draftVars, activeVars, status, error, seriesVars,
                   pollVars, chart, hoveredSummary, hoveredRuntime, rateChart,
                   pendingEffects, edits>>

Next ==
    \/ \E v \in Inputs : SetDraftInput(v)
    \/ ToggleDraftSource
    \/ \E m \in Modes : SetDraftMode(m)
    \/ \E k \in KeywordChoices : SetDraftKeywords(k)
    \/ \E t \in ThresholdChoices : SetDraftThreshold(t)
    \/ EditClick
    \/ HandleSubmit
    \/ HandleReset
    \/ FlushEffects
    \/ \E t \in BagToSet(timers) : TimerFire(t)
    \/ \E r \in BagToSet(inflight) : \E resp \in Responses : Respond(r, resp)

Spec == Init /\ [][Next]_vars

(***************************************************************************)
(* The series reconciler on its own: one committed configuration polls,    *)
(* and the payloads and the clock vary.                                    *)
(***************************************************************************)
\* The longest rates array a payload carries.
MaxRates == 5

\* The samples of PointsPayload with a later stream start and an hour on.
ReanchoredPayload ==
    Payload("", <<>>, <<>>, "", "", <<>>,
            <<[timestamp |-> 1000, rate |-> 1], [timestamp |-> 1090, rate |-> 3]>>,
            1050, 0, "")

\* A sample without a timestamp and one more than an hour into the stream.
LongRunPayload ==
    Payload("", <<>>, <<>>, "", "", <<>>,
            <<[timestamp |-> 0, rate |-> 1], [timestamp |-> 4750, rate |-> 3]>>,
            1050, 0, "")

LabelPayloads ==
    {RatesPayload(n) : n \in 0..MaxRates}
    \cup {UnanchoredPayload, PointsPayload, GrownPayload, ReanchoredPayload,
          LongRunPayload}

LabelResponses == {Response(TRUE, "", TRUE, "json", p) : p \in LabelPayloads}

\* Date.now() at the moments the rateLabels effect can run.
LabelTimes == {60000, 68000}

\* The state once the user has typed a video id, chosen streamer mode and
\* committed, and the effects of that render have run: the chart is mounted
\* and the first request is in flight.
StartedPolling ==
    /\ isEditing = FALSE
    /\ draftInput = Text(VideoRef)
    /\ draftSource = "youtube"
    /\ draftMode = "streamer"
    /\ draftKeywords = ""
    /\ draftThreshold = "2"
    /\ activeStreamId = VideoRef
    /\ activeSource = "youtube"
    /\ activeMode = "streamer"
    /\ activeKeywords = ""
    /\ activeThreshold = "2"
    /\ status = "Updating"
    /\ error = ""
    /\ summary = ""
    /\ events = <<>>
    /\ history = <<>>
    /\ videoTitle = "Waiting..."
    /\ videoChannel = "Waiting..."
    /\ updatedAt = Null
    /\ rates = <<>>
    /\ rateLabels = <<>>
    /\ ratePoints = <<>>
    /\ streamStartTs = Null
    /\ inflight = SetToBag({Request(Config(VideoRef, "youtube", "streamer", "", "2"),
                                    TRUE, FALSE)})
    /\ timers = EmptyBag
    /\ chart = Chart(<<>>, <<>>)
    /\ hoveredSummary = ""
    /\ hoveredRuntime = <<>>
    /\ download = NoFile
    /\ rateChart = Chart(<<>>, <<>>)
    /\ pendingEffects = {}
    /\ edits = 2
    /\ seriesKey = NoKey
    /\ StaticInit
    /\ last = Event("effects", "poll")

NextLabels ==
    \/ \E now \in LabelTimes : FlushEffectsAt(now)
    \/ \E t \in BagToSet(timers) : TimerFire(t)
    \/ \E r \in BagToSet(inflight) : \E resp \in LabelResponses : Respond(r, resp)

SpecLabels == StartedPolling /\ [][NextLabels]_vars

(***************************************************************************)
(* The display windows on their own: one committed configuration polls     *)
(* payloads that are longer than the windows, and the static client is     *)
(* handed the same rates arrays.                                           *)
(***************************************************************************)
\* The samples a long payload carries beyond a display window.
Excess == 1

\* Preferred shape with n samples, one per second from the stream start.
LongPointsPayload(n) ==
    Payload("", <<>>, <<>>, "", "", <<>>,
            [i \in 1..n |-> [timestamp |-> 1000 + i, rate |-> i % 4]],
            1000, 0, "")

ChartPayloads ==
    {RatesPayload(staticMaxPoints + Excess), RatesPayload(maxPoints + Excess),
     LongPointsPayload(maxPoints + Excess)}

ChartResponses == {Response(TRUE, "", TRUE, "json", p) : p \in ChartPayloads}

\* fetchSummary of the static client hands the rates of a payload to its chart.
StaticUpdateRateChart(payload) ==
    /\ rateChart' = updateRateChart(rateChart, payload.rates)
    /\ last' = [Event("static", "chart")
                   EXCEPT !.resp = Response(TRUE, "", TRUE, "json", payload)]
    /\ UNCHANGED <<seriesKey, staticVars, isEditing, draftVars, activeVars, status, error, seriesVars,
                   pollVars, chart, hoveredSummary, hoveredRuntime, download,
                   pendingEffects, edits>>

NextChart ==
    \/ FlushEffects
    \/ \E t \in BagToSet(timers) : TimerFire(t)
    \/ \E r \in BagToSet(inflight) : \E resp \in ChartResponses : Respond(r, resp)
    \/ \E p \in ChartPayloads : StaticUpdateRateChart(p)

SpecChart == StartedPolling /\ [][NextChart]_vars

(***************************************************************************)
(* The history aligner on its own: one committed configuration polls and   *)
(* the pointer moves over the chart.                                       *)
(***************************************************************************)
\* The highest element index the pointer is tried on.
MaxIndex == 1

HistoryEntry(runtime, text) == [timestamp |-> runtime, summary |-> text]

HoverHistories ==
    {<<>>,
     \* 01:00, 01:45, 02:00
     <<HistoryEntry(<<"0","1",":","0","0">>, "h1"),
       HistoryEntry(<<"0","1",":","4","5">>, "h2"),
       HistoryEntry(<<"0","2",":","0","0">>, "h3")>>,
     \* 01:00, 02:00, 01:00:00
     <<HistoryEntry(<<"0","1",":","0","0">>, "h1"),
       HistoryEntry(<<"0","2",":","0","0">>, "h3"),
       HistoryEntry(<<"0","1",":","0","0",":","0","0">>, "h4")>>,
     \* x:10, 90, no runtime, 01:3x
     <<HistoryEntry(<<"x",":","1","0">>, "h5"),
       HistoryEntry(<<"9","0">>, "h6"),
       HistoryEntry(<<>>, "h7"),
       HistoryEntry(<<"0","1",":","3","x">>, "h8")>>,
     \* x:10, 90, 1:2:3:4, 01:
     <<HistoryEntry(<<"x",":","1","0">>, "h5"),
       HistoryEntry(<<"9","0">>, "h6"),
       HistoryEntry(<<"1",":","2",":","3",":","4">>, "h9"),
       HistoryEntry(<<"0","1",":">>, "h10")>>,
     \* 01:30, without a summary text
     <<HistoryEntry(<<"0","1",":","3","0">>, "")>>}

\* The rates and ratePoints of a payload.
HoverSeries ==
    {[rates |-> <<>>,
      ratePoints |-> <<[timestamp |-> 1000, rate |-> 1],
                       [timestamp |-> 1090, rate |-> 3]>>],
     [rates |-> <<>>,
      ratePoints |-> <<[timestamp |-> 0, rate |-> 1], [timestamp |-> 90, rate |-> 3]>>],
     [rates |-> <<1, 2>>, ratePoints |-> <<>>]}

HoverStarts == {Null, 1000, 1050}

HoverPayloads ==
    {Payload("s1", <<>>, h, "T1", "C1", sr.rates, sr.ratePoints, start, 1100, "") :
        h \in HoverHistories, sr \in HoverSeries, start \in HoverStarts}

HoverResponses == {Response(TRUE, "", TRUE, "json", p) : p \in HoverPayloads}

NextHover ==
    \/ FlushEffects
    \/ \E t \in BagToSet(timers) : TimerFire(t)
    \/ \E r \in BagToSet(inflight) : \E resp \in HoverResponses : Respond(r, resp)
    \/ \E index \in 0..MaxIndex : ChartHover(index)
    \/ HoverAway

SpecHover == StartedPolling /\ [][NextHover]_vars

(***************************************************************************)
(* The exports on their own: one committed configuration receives one      *)
(* payload and the Export CSV buttons are clicked.                         *)
(***************************************************************************)
KeywordEvent(timestamp, keyword) == [timestamp |-> timestamp, keyword |-> keyword]

ExportEvents ==
    {<<>>,
     \* 00:12 clutch
     <<KeywordEvent(<<"0","0",":","1","2">>, <<"c","l","u","t","c","h">>)>>,
     \* 00:12 clutch, 01:05:09 gg
     <<KeywordEvent(<<"0","0",":","1","2">>, <<"c","l","u","t","c","h">>),
       KeywordEvent(<<"0","1",":","0","5",":","0","9">>, <<"g","g">>)>>,
     \* 00:40 say "gg", 00:41 ""
     <<KeywordEvent(<<"0","0",":","4","0">>, <<"s","a","y"," ","\"","g","g","\"">>),
       KeywordEvent(<<"0","0",":","4","1">>, <<"\"","\"">>)>>,
     \* no timestamp, no keyword, 00:12 clutch
     <<KeywordEvent(<<>>, <<"g","g">>),
       KeywordEvent(<<"0","0",":","5","0">>, <<>>),
       KeywordEvent(<<"0","0",":","1","2">>, <<"c","l","u","t","c","h">>)>>}

\* The rates, ratePoints and streamStartTs of a payload.
ExportSeries ==
    {[rates |-> [i \in 1..n |-> i + 8], ratePoints |-> <<>>, start |-> Null] :
        n \in 0..MaxRates}
    \cup
    {[rates |-> <<>>, start |-> 1000,
      ratePoints |-> <<[timestamp |-> 1000, rate |-> 1],
                       [timestamp |-> 1090, rate |-> 13],
                       [timestamp |-> 4700, rate |-> 0]>>],
     [rates |-> <<>>, start |-> Null,
      ratePoints |-> <<[timestamp |-> 3661, rate |-> 2],
                       [timestamp |-> 0, rate |-> 4]>>],
     [rates |-> <<7, 7, 7>>, start |-> 1000,
      ratePoints |-> <<[timestamp |-> 1000, rate |-> 1],
                       [timestamp |-> 1090, rate |-> 3]>>]}

ExportPayloads ==
    {Payload("s1", e, <<>>, "T1", "C1", sr.rates, sr.ratePoints, sr.start, 1100, "") :
        e \in ExportEvents, sr \in ExportSeries}
    \cup {LongPointsPayload(maxPoints + Excess)}

ExportResponses == {Response(TRUE, "", TRUE, "json", p) : p \in ExportPayloads}

NextExport ==
    \/ FlushEffects
    \/ \E r \in BagToSet(inflight) : \E resp \in ExportResponses : Respond(r, resp)
    \/ HandleExportTimestamps
    \/ HandleExportRates

SpecExport == StartedPolling /\ [][NextExport]_vars

(***************************************************************************)
(* The request parameters on their own: a streamer configuration with      *)
(* keywords polls, and the user edits mode, keywords and threshold and     *)
(* commits.                                                                *)
(***************************************************************************)
\* The state once the user has typed a video id, chosen streamer mode, typed
\* a keyword and committed, and the effects of that render have run.  The
\* edits of the user are counted from this state on.
StartedPollingKeywords ==
    /\ isEditing = FALSE
    /\ draftInput = Text(VideoRef)
    /\ draftSource = "youtube"
    /\ draftMode = "streamer"
    /\ draftKeywords = "clutch"
    /\ draftThreshold = "2"
    /\ activeStreamId = VideoRef
    /\ activeSource = "youtube"
    /\ activeMode = "streamer"
    /\ activeKeywords = "clutch"
    /\ activeThreshold = "2"
    /\ status = "Updating"
    /\ error = ""
    /\ summary = ""
    /\ events = <<>>
    /\ history = <<>>
    /\ videoTitle = "Waiting..."
    /\ videoChannel = "Waiting..."
    /\ updatedAt = Null
    /\ rates = <<>>
    /\ rateLabels = <<>>
    /\ ratePoints = <<>>
    /\ streamStartTs = Null
    /\ inflight = SetToBag({Request(Config(VideoRef, "youtube", "streamer",
                                           "clutch", "2"), TRUE, FALSE)})
    /\ timers = EmptyBag
    /\ chart = Chart(<<>>, <<>>)
    /\ hoveredSummary = ""
    /\ hoveredRuntime = <<>>
    /\ download = NoFile
    /\ rateChart = Chart(<<>>, <<>>)
    /\ pendingEffects = {}
    /\ edits = 0
    /\ seriesKey = NoKey
    /\ StaticInit
    /\ last = Event("effects", "poll")

NextRequest ==
    \/ \E m \in Modes : SetDraftMode(m)
    \/ \E k \in KeywordChoices : SetDraftKeywords(k)
    \/ \E t \in ThresholdChoices : SetDraftThreshold(t)
    \/ EditClick
    \/ HandleSubmit
    \/ FlushEffects
    \/ \E t \in BagToSet(timers) : TimerFire(t)
    \/ \E r \in BagToSet(inflight) : \E resp \in Responses : Respond(r, resp)

SpecRequest == StartedPollingKeywords /\ [][NextRequest]_vars

(***************************************************************************)
(* Reference parsing on its own: the user types a reference into the       *)
(* empty form and submits it.                                              *)
(***************************************************************************)
\* https://www.youtube.com/watch?v=abcdefghijk
WatchLink ==
    Url(<<"h","t","t","p","s",":","/","/","w","w","w",".","y","o","u","t",
            "u","b","e",".","c","o","m","/","w","a","t","c","h","?","v","=",
            "a","b","c","d","e","f","g","h","i","j","k">>,
        <<"w","w","w",".","y","o","u","t","u","b","e",".","c","o","m">>, <<"/","w","a","t","c","h">>, TRUE, <<"a","b","c","d","e","f","g","h","i","j","k">>)

\* https://www.youtube.com/live/abcdefghijk
LiveLink ==
    Url(<<"h","t","t","p","s",":","/","/","w","w","w",".","y","o","u","t",
            "u","b","e",".","c","o","m","/","l","i","v","e","/","a","b","c",
            "d","e","f","g","h","i","j","k">>,
        <<"w","w","w",".","y","o","u","t","u","b","e",".","c","o","m">>, <<"/","l","i","v","e","/","a","b","c","d","e","f","g","h","i","j","k">>, FALSE, <<>>)

\* https://youtu.be/short
ShortLinkOfFive ==
    Url(<<"h","t","t","p","s",":","/","/","y","o","u","t","u",".","b","e",
            "/","s","h","o","r","t">>,
        <<"y","o","u","t","u",".","b","e">>, <<"/","s","h","o","r","t">>, FALSE, <<>>)

\* https://www.youtube.com/watch?v=abc
WatchLinkOfThree ==
    Url(<<"h","t","t","p","s",":","/","/","w","w","w",".","y","o","u","t",
            "u","b","e",".","c","o","m","/","w","a","t","c","h","?","v","=",
            "a","b","c">>,
        <<"w","w","w",".","y","o","u","t","u","b","e",".","c","o","m">>, <<"/","w","a","t","c","h">>, TRUE, <<"a","b","c">>)

\* https://www.youtube.com/live/xyz
LiveLinkOfThree ==
    Url(<<"h","t","t","p","s",":","/","/","w","w","w",".","y","o","u","t",
            "u","b","e",".","c","o","m","/","l","i","v","e","/","x","y","z">>,
        <<"w","w","w",".","y","o","u","t","u","b","e",".","c","o","m">>, <<"/","l","i","v","e","/","x","y","z">>, FALSE, <<>>)

\* https://www.youtube.com/feed
ChannelPage ==
    Url(<<"h","t","t","p","s",":","/","/","w","w","w",".","y","o","u","t",
            "u","b","e",".","c","o","m","/","f","e","e","d">>,
        <<"w","w","w",".","y","o","u","t","u","b","e",".","c","o","m">>, <<"/","f","e","e","d">>, FALSE, <<>>)

\* https://www.youtube.com/watch?v=
EmptyWatchLink ==
    Url(<<"h","t","t","p","s",":","/","/","w","w","w",".","y","o","u","t",
            "u","b","e",".","c","o","m","/","w","a","t","c","h","?","v","=">>,
        <<"w","w","w",".","y","o","u","t","u","b","e",".","c","o","m">>, <<"/","w","a","t","c","h">>, TRUE, <<>>)

\* What the user types: the bare identifier, alone, between blanks, one
\* character short, one character long and with a character outside the
\* alphabet; texts that are no URL; and URLs of each form.
ParseInputs ==
    {Text(VideoRef),
     Text(<<" ">> \o VideoRef \o <<" ">>),
     Text(SubSeq(VideoRef, 1, 10)),
     Text(VideoRef \o <<"l">>),
     Text(SubSeq(VideoRef, 1, 10) \o <<"!">>),
     Text(<<"A","_","-","0","1","2","3","4","5","6","Z">>),
     Text(<<"n","o"," ","i","d">>),
     Text(<<" ">>),
     WatchLink, ShortLink, LiveLink,
     ShortLinkOfFive, WatchLinkOfThree, LiveLinkOfThree, ChannelPage,
     EmptyWatchLink}

NextParse ==
    \/ \E v \in ParseInputs : SetDraftInput(v)
    \/ HandleSubmit
    \/ FlushEffects

SpecParse == Init /\ [][NextParse]_vars

(***************************************************************************)
(* The pointer over a chart that shows a window of the stored series: one *)
(* committed configuration polls, and one payload holds more samples than  *)
(* the chart shows, a second apart, with a summary at 00:01 and at 00:02.  *)
(***************************************************************************)
WindowHistory ==
    <<HistoryEntry(<<"0","0",":","0","1">>, "first"),
      HistoryEntry(<<"0","0",":","0","2">>, "second")>>

LongHoverPayload ==
    Payload("s1", <<>>, WindowHistory, "T1", "C1", <<>>,
            LongPointsPayload(maxPoints + Excess).ratePoints, 1000, 1100, "")

WindowHoverPayloads ==
    {LongHoverPayload} \cup {p \in HoverPayloads : p.streamStartTs = 1000}

WindowHoverResponses ==
    {Response(TRUE, "", TRUE, "json", p) : p \in WindowHoverPayloads}

NextWindowHover ==
    \/ FlushEffects
    \/ \E t \in BagToSet(timers) : TimerFire(t)
    \/ \E r \in BagToSet(inflight) :
          \E resp \in WindowHoverResponses : Respond(r, resp)
    \/ \E index \in 0..MaxIndex : ChartHover(index)
    \/ HoverAway

SpecWindowHover == StartedPolling /\ [][NextWindowHover]_vars

(***************************************************************************)
(* The lists of a payload on their own: one committed configuration polls *)
(* and the payloads hold their lists as arrays of several lengths, leave   *)
(* them out, or hold a string in their place.                              *)
(***************************************************************************)
ListFields == {"events", "summaryHistory", "rates", "ratePoints"}

\* LegacyPayload with the string "none" in the place of the list named field.
TextInPlaceOf(field) ==
    [LegacyPayload EXCEPT ![field] = <<"n","o","n","e">>, !.texts = {field}]

ShapePayloads ==
    {NoPayload, LegacyPayload, PointsPayload, GrownPayload, RatesPayload(1)}
    \cup {TextInPlaceOf(field) : field \in ListFields}

ShapeResponses == {Response(TRUE, "", TRUE, "json", p) : p \in ShapePayloads}

NextShape ==
    \/ FlushEffects
    \/ \E t \in BagToSet(timers) : TimerFire(t)
    \/ \E r \in BagToSet(inflight) : \E resp \in ShapeResponses : Respond(r, resp)

SpecShape == StartedPolling /\ [][NextShape]_vars

(***************************************************************************)
(* The static client (static/app.js): fetchSummary, startPolling and the   *)
(* handlers of the form.                                                   *)
(***************************************************************************)
\* The most polling loops the user is let to start next to each other.
MaxLoops == 2

reactVars == <<isEditing, draftVars, activeVars, status, error, seriesVars,
               pollVars, chart, hoveredSummary, hoveredRuntime, download,
               pendingEffects, edits, seriesKey>>

\* The pending requests and timers of the static client.
Loops == BagCardinality(fetches) + BagCardinality(staticTimers)

StaticLinks == {Text(VideoRef), Text(<<"n","o"," ","i","d">>)}

StaticResponses ==
    {Response(TRUE, "", TRUE, "json", LegacyPayload),
     Response(TRUE, "", TRUE, "json", PointsPayload),
     Response(TRUE, "", FALSE, "json", [NoPayload EXCEPT !.error = "quota"]),
     Response(FALSE, "Failed to fetch", FALSE, "empty", NoPayload)}

\* What the try block of the static fetchSummary throws for a response.
StaticThrown(resp) ==
    IF ~resp.resolved THEN [threw |-> TRUE, message |-> resp.message]
    ELSE IF resp.body = "empty"
         THEN [threw |-> TRUE, message |-> "Unexpected end of JSON input"]
    ELSE IF resp.body = "garbage"
         THEN [threw |-> TRUE, message |-> "Unexpected token"]
    ELSE IF ~resp.ok
         THEN [threw |-> TRUE,
               message |-> IF resp.payload.error # "" THEN resp.payload.error
                           ELSE "Unable to fetch summary."]
    ELSE IF resp.payload.error # ""
         THEN [threw |-> TRUE, message |-> resp.payload.error]
    ELSE [threw |-> FALSE, message |-> ""]

\* fetchSummary up to its await: nothing without a video id, and otherwise
\* the status and the error line are written and a request is issued with
\* the module variables as they are now.
BeginFetch(id, mode, keywords, threshold, shown, requests) ==
    IF id = <<>> THEN [page |-> shown, fetches |-> requests]
    ELSE [page |-> [shown EXCEPT !.statusPill = "Updating", !.errorText = ""],
          fetches |-> requests (+) SetToBag({StaticUrl(id, mode, keywords,
                                                       threshold)})]

\* clearTimeout(pollTimer): the timer whose handle pollTimer holds is removed,
\* if it is still pending.
ClearPollTimer(handle, pending) ==
    IF handle = "null" THEN pending
    ELSE [t \in {u \in DOMAIN pending : ~u.current} |-> pending[t]]

\* pollTimer = window.setTimeout(fetchSummary, 8000): the handle of the new
\* timer replaces the one pollTimer held.
SetPollTimer(pending) ==
    LET others == {u \in DOMAIN pending : ~u.current}
        kept == BagCardinality(pending)
    IN IF kept = 0 THEN SetToBag({StaticTimer(TRUE)})
       ELSE [t \in {StaticTimer(FALSE), StaticTimer(TRUE)} |->
                IF t.current THEN 1 ELSE kept]

\* startPolling with the module variables given: the primed page, requests
\* and timers.
StartPolling(id, mode, keywords, threshold, shown) ==
    LET begun == BeginFetch(id, mode, keywords, threshold, shown, fetches) IN
    /\ staticTimers' = ClearPollTimer(pollTimer, staticTimers)
    /\ page' = begun.page
    /\ fetches' = begun.fetches

\* The user types into the link input.
StaticType(link) ==
    /\ controls' = [controls EXCEPT !.link = link]
    /\ last' = Event("staticType", "")
    /\ UNCHANGED <<pollTimer, currentVideoId, currentMode, currentKeywords,
                   currentThreshold, page, fetches, staticTimers, rateChart,
                   reactVars>>

\* The submit handler of the form (app.js 314-340).
\* parseVideoId of app.js 28-49 reads a reference as the one of App.jsx does.
StaticSubmit ==
    /\ controls.link.text # <<>>
    /\ Loops < MaxLoops
    /\ LET id == parseVideoId(controls.link) IN
       /\ currentMode' = controls.mode
       /\ currentKeywords' = controls.keywords
       /\ currentThreshold' = controls.threshold
       /\ IF id = <<>>
          THEN /\ page' = [page EXCEPT !.errorText =
                             "Paste a valid YouTube livestream link or video ID."]
               /\ last' = Event("staticSubmit", "rejected")
               /\ UNCHANGED <<currentVideoId, fetches, staticTimers, rateChart>>
          ELSE /\ currentVideoId' = id
               /\ rateChart' = Chart(<<>>, <<>>)
               /\ StartPolling(id, controls.mode, controls.keywords,
                               controls.threshold,
                               [page EXCEPT
                                  !.errorText = "",
                                  !.statusPill = "Connecting",
                                  !.videoPill = id,
                                  !.updatedPill = Null,
                                  !.summaryContent = updateSummary(""),
                                  !.eventsContent =
                                     IF controls.mode = "streamer" THEN <<>> ELSE @,
                                  !.historyContent =
                                     IF controls.mode = "streamer" THEN <<>> ELSE @])
               /\ last' = Event("staticSubmit", "accepted")
    /\ UNCHANGED <<pollTimer, controls, reactVars>>

\* The click handler of the reset button (app.js 342-368).
StaticReset ==
    /\ controls' = [controls EXCEPT !.link = Text(<<>>), !.keywords = "",
                                    !.threshold = "2"]
    /\ currentVideoId' = <<>>
    /\ currentMode' = "general"
    /\ currentKeywords' = ""
    /\ currentThreshold' = "2"
    /\ page' = [page EXCEPT !.statusPill = "Idle", !.errorText = "",
                            !.summaryContent = updateSummary(""),
                            !.videoTitle = "Waiting...",
                            !.videoChannel = "Waiting...",
                            !.videoPill = <<>>, !.updatedPill = Null]
    /\ rateChart' = Chart(<<>>, <<>>)
    /\ staticTimers' = ClearPollTimer(pollTimer, staticTimers)
    /\ last' = Event("staticReset", "")
    /\ UNCHANGED <<pollTimer, fetches, reactVars>>

\* The user checks the other mode radio: its change handler (app.js 370-380).
StaticModeChange(mode) ==
    /\ mode # controls.mode
    /\ Loops < MaxLoops
    /\ controls' = [controls EXCEPT !.mode = mode]
    /\ currentMode' = mode
    /\ currentKeywords' = controls.keywords
    /\ currentThreshold' = controls.threshold
    /\ IF currentVideoId # <<>>
       THEN StartPolling(currentVideoId, mode, controls.keywords,
                         controls.threshold, page)
       ELSE UNCHANGED <<page, fetches, staticTimers>>
    /\ last' = Event("staticChange", "mode")
    /\ UNCHANGED <<pollTimer, currentVideoId, rateChart, reactVars>>

\* The user commits another text in keywordInput: its change handler
\* (app.js 382-389).  The texts tried hold no blank at either end, so trim()
\* leaves them as they are.
StaticKeywordChange(keywords) ==
    /\ keywords # controls.keywords
    /\ Loops < MaxLoops
    /\ controls' = [controls EXCEPT !.keywords = keywords]
    /\ currentKeywords' = keywords
    /\ IF currentVideoId # <<>> /\ currentMode = "streamer"
       THEN StartPolling(currentVideoId, currentMode, keywords, currentThreshold,
                         page)
       ELSE UNCHANGED <<page, fetches, staticTimers>>
    /\ last' = Event("staticChange", "keywords")
    /\ UNCHANGED <<pollTimer, currentVideoId, currentMode, currentThreshold,
                   rateChart, reactVars>>

\* The user moves keywordThreshold and lets it go: its input handler and
\* then its change handler (app.js 391-404).
StaticThresholdChange(threshold) ==
    /\ threshold # controls.threshold
    /\ Loops < MaxLoops
    /\ controls' = [controls EXCEPT !.threshold = threshold]
    /\ currentThreshold' = threshold
    /\ IF currentVideoId # <<>> /\ currentMode = "streamer"
       THEN StartPolling(currentVideoId, currentMode, currentKeywords,
                         threshold, page)
       ELSE UNCHANGED <<page, fetches, staticTimers>>
    /\ last' = Event("staticChange", "threshold")
    /\ UNCHANGED <<pollTimer, currentVideoId, currentMode, currentKeywords,
                   rateChart, reactVars>>

\* A pending timer fires: fetchSummary runs.
StaticTimerFire(t) ==
    /\ BagIn(t, staticTimers)
    /\ staticTimers' = staticTimers (-) SetToBag({t})
    /\ LET begun == BeginFetch(currentVideoId, currentMode, currentKeywords,
                               currentThreshold, page, fetches)
       IN page' = begun.page /\ fetches' = begun.fetches
    /\ last' = Event("staticTick", IF currentVideoId = <<>> THEN "stopped" ELSE "")
    /\ UNCHANGED <<pollTimer, currentVideoId, currentMode, currentKeywords,
                   currentThreshold, controls, rateChart, reactVars>>

\* The response of request f arrives: the rest of fetchSummary runs, and it
\* sets the next timer (app.js 272-304).
StaticRespond(f, resp) ==
    /\ BagIn(f, fetches)
    /\ fetches' = fetches (-) SetToBag({f})
    /\ LET thrown == StaticThrown(resp)
           payload == resp.payload
       IN IF thrown.threw
          THEN /\ page' = [page EXCEPT !.statusPill = "Offline",
                                       !.errorText = ErrorText(thrown.message)]
               /\ UNCHANGED rateChart
          ELSE /\ page' = [page EXCEPT
                             !.summaryContent = updateSummary(payload.summary),
                             !.eventsContent =
                                IF currentMode = "streamer" THEN payload.events ELSE @,
                             !.historyContent =
                                IF currentMode = "streamer"
                                THEN payload.summaryHistory ELSE @,
                             !.videoTitle = OrElse(payload.videoTitle, "Unknown"),
                             !.videoChannel = OrElse(payload.videoChannel, "Unknown"),
                             !.statusPill =
                                IF payload.summary # "" THEN "Live" ELSE "Waiting",
                             !.updatedPill =
                                IF Falsy(payload.updatedAt) THEN @
                                ELSE payload.updatedAt]
               /\ rateChart' = updateRateChart(rateChart, payload.rates)
    /\ pollTimer' = "handle"
    /\ staticTimers' = SetPollTimer(staticTimers)
    /\ last' = [Event("staticResp", IF StaticThrown(resp).threw THEN "fail" ELSE "ok")
                   EXCEPT !.resp = resp]
    /\ UNCHANGED <<currentVideoId, currentMode, currentKeywords, currentThreshold,
                   controls, reactVars>>

NextStatic ==
    \/ \E link \in StaticLinks : StaticType(link)
    \/ StaticSubmit
    \/ StaticReset
    \/ \E mode \in Modes : StaticModeChange(mode)
    \/ \E keywords \in KeywordChoices : StaticKeywordChange(keywords)
    \/ \E threshold \in ThresholdChoices : StaticThresholdChange(threshold)
    \/ \E t \in BagToSet(staticTimers) : StaticTimerFire(t)
    \/ \E f \in BagToSet(fetches) : \E resp \in StaticResponses : StaticRespond(f, resp)

SpecStatic == Init /\ [][NextStatic]_vars

(***************************************************************************)
(* The runtime clock on its own: one committed configuration polls and    *)
(* every payload holds one sample, taken before, at and after the stream   *)
(* start, up to the hour and beyond it.                                    *)
(***************************************************************************)
ClockStarts == {1000, 1050}

ClockTimestamps == {1, 1000, 1007, 1049, 1075, 4599, 4600, 4649, 4650, 4711,
                    37000, 361000, 361050}

ClockPayload(timestamp, start) ==
    Payload("", <<>>, <<>>, "", "", <<>>,
            <<[timestamp |-> timestamp, rate |-> 1]>>, start, 0, "")

ClockResponses ==
    {Response(TRUE, "", TRUE, "json", ClockPayload(t, s)) :
        t \in ClockTimestamps, s \in ClockStarts}

NextClock ==
    \/ FlushEffects
    \/ \E t \in BagToSet(timers) : TimerFire(t)
    \/ \E r \in BagToSet(inflight) : \E resp \in ClockResponses : Respond(r, resp)

SpecClock == StartedPolling /\ [][NextClock]_vars

(***************************************************************************)
(* Edit and commit: the Edit button loads the draft from the active cells  *)
(* and the user commits it again, after typing a reference of any form.    *)
(***************************************************************************)
\* References of each form, with an identifier of 11 characters and without.
ReparseInputs ==
    {Text(VideoRef), Text(ChannelRef), ShortLink, WatchLink, LiveLink,
     ShortLinkOfFive, WatchLinkOfThree, LiveLinkOfThree}

NextReparse ==
    \/ \E v \in ReparseInputs : SetDraftInput(v)
    \/ ToggleDraftSource
    \/ EditClick
    \/ HandleSubmit
    \/ FlushEffects
    \/ \E r \in BagToSet(inflight) :
          Respond(r, Response(TRUE, "", TRUE, "json", PointsPayload))

SpecReparse == Init /\ [][NextReparse]_vars

(***************************************************************************)
(* Every handler of the page at once: the form, the poll effect, the       *)
(* chart pointer and the export buttons.                                   *)
(***************************************************************************)
NextPage ==
    \/ \E v \in Inputs : SetDraftInput(v)
    \/ ToggleDraftSource
    \/ \E m \in Modes : SetDraftMode(m)
    \/ \E k \in KeywordChoices : SetDraftKeywords(k)
    \/ \E t \in ThresholdChoices : SetDraftThreshold(t)
    \/ EditClick
    \/ HandleSubmit
    \/ HandleReset
    \/ FlushEffects
    \/ \E t \in BagToSet(timers) : TimerFire(t)
    \/ \E r \in BagToSet(inflight) : \E resp \in Responses : Respond(r, resp)
    \/ \E index \in 0..MaxIndex : ChartHover(index)
    \/ HoverAway
    \/ HandleExportTimestamps
    \/ HandleExportRates

SpecPage == StartedPolling /\ [][NextPage]_vars

(***************************************************************************)
(* Properties.                                                             *)
(***************************************************************************)
SeriesEmpty ==
    /\ summary = "" /\ events = <<>> /\ history = <<>>
    /\ rates = <<>> /\ ratePoints = <<>> /\ rateLabels = <<>>
    /\ streamStartTs = Null /\ updatedAt = Null
    /\ videoTitle = "Waiting..." /\ videoChannel = "Waiting..."

\* The cells a poll response may write, rateLabels aside.
responseCells == <<summary, events, history, rates, ratePoints, streamStartTs,
                   videoTitle, videoChannel, updatedAt>>

\* C1: the response of a request whose effect has been torn down since (the
\* active configuration was replaced or cleared while it was in flight)
\* changes no series cell, neither status nor error, and schedules no timer.
StaleResponseInert ==
    [][(last'.op = "resp" /\ last'.stale)
          => (UNCHANGED <<responseCells, rateLabels, status, error>>
              /\ timers' = timers /\ pendingEffects' = pendingEffects)]_vars

\* A successful stale response arrived while a newer configuration is polling.
StaleResponseWitness ==
    /\ last.op = "resp" /\ last.stale /\ last.arg = "ok"
    /\ activeStreamId # <<>>
    /\ \E r \in BagToSet(inflight) : ~r.superseded

\* C2: at most one poll request is awaiting its response.
AtMostOneInFlight == BagCardinality(inflight) <= 1

\* C3: a commit with a new identity key leaves every series empty and the
\* title and channel at the placeholder, issues no request itself, and the
\* request the poll effect then issues starts from the emptied series.
NewStreamResetsFirst ==
    /\ [][(last'.op = "commit" /\ last'.arg = "new")
             => (SeriesEmpty' /\ inflight' = inflight)]_vars
    /\ [][(last.op = "commit" /\ last.arg = "new"
           /\ BagCardinality(inflight') > BagCardinality(inflight))
             => (SeriesEmpty /\ SeriesEmpty')]_vars

\* A new stream was committed over a populated one and its first request issued.
NewStreamWitness ==
    /\ last.op = "effects" /\ last.arg = "poll"
    /\ activeStreamId = ChannelRef
    /\ SeriesEmpty
    /\ \E r \in BagToSet(inflight) : ~r.superseded /\ r.cfg.id = ChannelRef
    /\ \E r \in BagToSet(inflight) : r.superseded /\ r.cfg.id = VideoRef

\* C4: a commit with the identity key of the active configuration leaves every
\* series cell as it was.
SameStreamKeepsSeries ==
    [][(last'.op = "commit" /\ last'.arg = "same") => UNCHANGED seriesVars]_vars

\* A parameter tweak was committed on a stream that has data.
SameStreamWitness ==
    /\ last.op = "commit" /\ last.arg = "same"
    /\ "poll" \in pendingEffects
    /\ summary # "" /\ rates # <<>> /\ rateLabels # <<>>

\* C5: a commit whose reference parses to the empty identifier sets the
\* message of the draft platform and changes nothing else.
RejectedCommitInert ==
    /\ [][(last'.op \in {"commit", "reject"})
             => (last'.op = "reject"
                   <=> ParseReference(draftSource, draftInput) = <<>>)]_vars
    /\ [][(last'.op = "reject")
             => (/\ draftSource = "youtube"
                      => error' = "Paste a valid YouTube livestream link or video ID."
                 /\ draftSource = "twitch"
                      => error' = "Paste a valid Twitch channel or link."
                 /\ UNCHANGED <<activeVars, status, seriesVars, isEditing,
                                draftVars, pollVars, pendingEffects>>)]_vars

\* A Twitch reference was rejected while a request was in flight.
RejectedCommitWitness ==
    /\ last.op = "reject" /\ last.arg = "twitch"
    /\ activeStreamId # <<>>
    /\ inflight # EmptyBag

\* A response that counts as failed: the transport failed, the body is empty
\* or does not parse, the status is not a success, or the payload has an error.
IsFailure(resp) ==
    \/ ~resp.resolved
    \/ resp.body # "json"
    \/ ~resp.ok
    \/ resp.payload.error # ""

\* C6: a failed poll of the current configuration sets status to Offline and
\* error to a non-empty message, and leaves every series cell as it was.
FailedPollKeepsSeries ==
    [][(last'.op = "resp" /\ ~last'.stale /\ IsFailure(last'.resp))
          => (/\ status' = "Offline"
              /\ error' # ""
              /\ UNCHANGED <<responseCells, rateLabels>>)]_vars

\* A payload carrying an error field arrived over a populated series.
FailedPollWitness ==
    /\ last.op = "resp" /\ ~last.stale
    /\ last.resp.ok /\ last.resp.payload.error # ""
    /\ status = "Offline"
    /\ summary # "" /\ rates # <<>>

\* C7: when a tick of the current configuration resolves, no timer was pending
\* and exactly one is pending afterwards, with a delay of 8000 ms.
ResolvedTickSchedulesNext ==
    [][(last'.op = "resp" /\ ~last'.stale)
          => (/\ timers = EmptyBag
              /\ timers' = SetToBag({Timer(ActiveConfig, TRUE, FALSE, 8000)}))]_vars

\* A failed tick of the current configuration left its one timer pending.
ResolvedTickWitness ==
    /\ last.op = "resp" /\ ~last.stale /\ last.arg = "fail"
    /\ BagCardinality(timers) = 1

\* C8: a change of any active cell re-runs the poll effect; that re-run leaves
\* no timer pending, so no timer of a torn-down effect is ever pending or
\* fires, and when a configuration is active it issues exactly one request
\* for it in the same step.
ConfigChangeRestartsPolling ==
    /\ [](\A t \in BagToSet(timers) : ~t.superseded)
    /\ [][last'.op = "tick" => ~last'.stale]_vars
    /\ [][ActiveConfig' # ActiveConfig => "poll" \in pendingEffects']_vars
    /\ [][("poll" \in pendingEffects /\ pendingEffects' = {})
             => (/\ timers' = EmptyBag
                 /\ activeStreamId # <<>>
                      => CopiesIn(Request(ActiveConfig, TRUE, FALSE), inflight') = 1
                 /\ \A r \in BagToSet(inflight') :
                      ~r.superseded => (activeStreamId # <<>> /\ r.cfg = ActiveConfig))]_vars

\* A pending timer was cancelled by a threshold-only change and a tick issued.
ConfigChangeWitness ==
    /\ last.op = "effects" /\ last.arg = "poll" /\ last.cancelled = 1
    /\ activeThreshold = "3"
    /\ timers = EmptyBag
    /\ CopiesIn(Request(ActiveConfig, TRUE, FALSE), inflight) = 1

\* C9: a draft edit changes no active cell, issues no request and cancels no
\* timer; every request issued carries the active cells of that moment.
DraftNeverLeaks ==
    /\ [][last'.op = "stageEdit" => UNCHANGED <<activeVars, pollVars>>]_vars
    /\ [][\A r \in BagToSet(inflight') :
             (r.active /\ CopiesIn(r, inflight') > CopiesIn(r, inflight))
                => (/\ r.url.videoId = activeStreamId'
                    /\ r.url.source = activeSource'
                    /\ r.url.mode = activeMode'
                    /\ r.url.keywords \subseteq {activeKeywords'}
                    /\ r.url.keywordThreshold \subseteq {activeThreshold'})]_vars

\* A tick was issued while the draft differed from the active configuration.
DraftNeverLeaksWitness ==
    /\ last.op = "tick"
    /\ isEditing
    /\ draftMode = "streamer" /\ activeMode = "general"
    /\ draftInput.text # activeStreamId

(***************************************************************************)
(* Liveness: effects are flushed, pending timers fire, requests resolve.   *)
(***************************************************************************)
Fairness ==
    /\ WF_vars(FlushEffects)
    /\ WF_vars(\E t \in BagToSet(timers) : TimerFire(t))
    /\ WF_vars(\E r \in BagToSet(inflight) : \E resp \in Responses : Respond(r, resp))

SpecLive == Spec /\ Fairness

TickInFlight == \E r \in BagToSet(inflight) : ~r.superseded
TickScheduled == \E t \in BagToSet(timers) : ~t.superseded
\* The poll effect was just torn down: the configuration was replaced or cleared.
TornDown == "poll" \in pendingEffects

\* C10: a tick of the current configuration in flight leads to the next one
\* being scheduled, and a scheduled tick leads to the next tick in flight,
\* unless the configuration is replaced or cleared first.
PollingNeverStops ==
    /\ TickInFlight ~> (TickScheduled \/ TornDown)
    /\ TickScheduled ~> (TickInFlight \/ TornDown)

\* A later tick of the current configuration was issued by the timer.
PollingWitness ==
    /\ last.op = "tick" /\ ~last.stale
    /\ TickInFlight
    /\ rates # <<>>

(***************************************************************************)
(* Series reconciliation.                                                  *)
(***************************************************************************)
\* The rate series in use: ratePoints when non-empty, otherwise rates.
RateSeries == IF Len(ratePoints) > 0 THEN ratePoints ELSE rates

\* C11: once the effects of a render have run, there are as many display
\* labels as samples in the rate series in use, whatever payloads, commits
\* and resets came before.
LabelCountMatchesSeries == Idle => Len(rateLabels) = Len(RateSeries)

\* A rates-array payload was reconciled right after a ratePoints payload: the
\* labels of the two points were kept for the two rates.
LabelCountWitness ==
    /\ last.op = "effects" /\ last.arg = "labels"
    /\ ratePoints = <<>> /\ Len(rates) = 2
    /\ Len(rateLabels) = 2 /\ rateLabels[1].kind = "text"

\* The rateLabels effect is about to run on the payload that just arrived.
Reconciling == last.op = "resp" /\ "labels" \in pendingEffects

\* C12 as stated: when a payload has at least as many ratePoints as the one
\* before, the reconciliation leaves one label per sample and the label of
\* every earlier index as it was.
PointsLabelsNeverChurn ==
    [][(Reconciling /\ Len(ratePoints) > 0 /\ Len(last.points) <= Len(ratePoints))
          => (/\ Len(rateLabels') = Len(ratePoints)
              /\ \A i \in 1..Len(last.points) : rateLabels'[i] = rateLabels[i])]_vars

\* C12, amended: when a payload has at least as many ratePoints as the one
\* before, the reconciliation leaves one label per sample, and the label of
\* an earlier index is as it was whenever that sample's timestamp and the
\* stream start are the same in both payloads.
PointsLabelsStable ==
    [][(Reconciling /\ Len(ratePoints) > 0 /\ Len(last.points) <= Len(ratePoints))
          => (/\ Len(rateLabels') = Len(ratePoints)
              /\ \A i \in 1..Len(last.points) :
                    (/\ ratePoints[i].timestamp = last.points[i].timestamp
                     /\ streamStartTs = last.start)
                       => rateLabels'[i] = rateLabels[i])]_vars

\* A payload with one more sample and the same stream start was reconciled
\* over the labels of the two earlier samples.
PointsLabelsWitness ==
    /\ last.op = "effects" /\ last.arg = "labels"
    /\ Len(last.points) = 2 /\ Len(ratePoints) = 3
    /\ last.start = streamStartTs
    /\ Len(last.labels) = 2 /\ SubSeq(rateLabels, 1, 2) = last.labels

\* n labels taken from the clock: one per second, the last one at now.
FreshLabels(n, now) == [i \in 1..n |-> ClockLabel(now - (n - i) * 1000)]

\* C13: when a payload without ratePoints is reconciled, a rates array shorter
\* than the stored labels has every label rebuilt from the clock, one of
\* equal length leaves the labels as they are, and a longer one keeps every
\* stored label in place and appends one label per new sample.
LegacyLabelsReconciled ==
    [][(Reconciling /\ ratePoints = <<>>)
          => LET n == Len(rates)
                 m == Len(rateLabels)
             IN /\ n < m => \E now \in LabelTimes : rateLabels' = FreshLabels(n, now)
                /\ n = m => rateLabels' = rateLabels
                /\ n > m => (/\ Len(rateLabels') = n
                             /\ SubSeq(rateLabels', 1, m) = rateLabels
                             /\ \E now \in LabelTimes :
                                   SubSeq(rateLabels', m + 1, n)
                                     = FreshLabels(n - m, now))]_vars

\* The end of the length sequence 5, 5, 2, 4: two labels were rebuilt for the
\* restart and two more were appended behind them for the growth to four.
LegacyLabelsWitness ==
    /\ last.op = "effects" /\ last.arg = "labels"
    /\ ratePoints = <<>> /\ Len(rates) = 4
    /\ \E now \in LabelTimes : last.labels = FreshLabels(2, now)
    /\ Len(rateLabels) = 4 /\ SubSeq(rateLabels, 1, 2) = last.labels

(***************************************************************************)
(* Display windows.                                                        *)
(***************************************************************************)
\* shown is the most recent w elements of series, or all of it when shorter.
IsWindowOf(shown, series, w) ==
    /\ Len(shown) = (IF Len(series) <= w THEN Len(series) ELSE w)
    /\ \A i \in 1..Len(shown) : shown[i] = series[Len(series) - Len(shown) + i]

\* The rates of the series a payload puts in use.
PayloadRates(payload) ==
    IF Len(payload.ratePoints) > 0
    THEN [i \in 1..Len(payload.ratePoints) |-> payload.ratePoints[i].rate]
    ELSE payload.rates

\* C16 as stated: the chart is handed the most recent 20000 samples of a
\* ratePoints payload and the most recent 100 of a rates-array payload, and
\* the stored rates and ratePoints are the whole arrays of the payload.
ChartWindowAsStated ==
    [][(Reconciling /\ last'.op = "effects" /\ chart.exists)
          => (/\ IsWindowOf(chart'.data, PayloadRates(last.resp.payload),
                            IF Len(last.resp.payload.ratePoints) > 0
                            THEN 20000 ELSE 100)
              /\ rates' = last.resp.payload.rates
              /\ ratePoints' = last.resp.payload.ratePoints)]_vars

\* C16, amended: the React client hands its chart the most recent 20000
\* samples of the series in use, on the ratePoints path and on the rates-array
\* path alike, with the labels of those samples; the static client hands its
\* chart the most recent 100 rates; the stored rates and ratePoints are the
\* whole arrays of the payload.
ChartWindow ==
    /\ [][(Reconciling /\ last'.op = "effects" /\ chart.exists)
             => (/\ IsWindowOf(chart'.data, PayloadRates(last.resp.payload), 20000)
                 /\ IsWindowOf(chart'.labels, rateLabels', 20000)
                 /\ rates' = last.resp.payload.rates
                 /\ ratePoints' = last.resp.payload.ratePoints)]_vars
    /\ [][(last'.op = "static" /\ last'.resp.payload.rates # <<>>)
             => IsWindowOf(rateChart'.data, last'.resp.payload.rates, 100)]_vars

\* A payload of 20001 ratePoints was reconciled: all of them are stored and
\* the chart holds the last 20000; the static chart holds 100 of 101 rates.
ChartWindowWitness ==
    /\ last.op = "effects" /\ last.arg = "labels"
    /\ Len(ratePoints) = 20001
    /\ Len(chart.data) = 20000 /\ chart.data[1] = ratePoints[2].rate
    /\ Len(chart.labels) = 20000 /\ chart.labels[1] = rateLabels[2]
    /\ Len(rateChart.data) = 100 /\ rateChart.labels[1] = 2

(***************************************************************************)
(* History alignment.                                                      *)
(***************************************************************************)
\* A part of a runtime text is a number: after blanks and one sign, a digit.
IsNumberPart(part) ==
    LET t == TrimLeft(part)
        u == IF t # <<>> /\ Head(t) \in {"-", "+"} THEN Tail(t) ELSE t
    IN u # <<>> /\ Head(u) \in Digit

\* A runtime text parses: two or three parts between colons, each a number.
RuntimeParses(text) ==
    /\ text # <<>>
    /\ Len(SplitOn(text, ":", <<>>)) \in {2, 3}
    /\ \A p \in 1..Len(SplitOn(text, ":", <<>>)) :
          IsNumberPart(SplitOn(text, ":", <<>>)[p])

\* The history entries the aligner may select.
Parsed == {k \in 1..Len(history) : RuntimeParses(history[k].timestamp)}

\* A sample exists at the index and an anchor exists for it.
HasSample(index) == index + 1 <= Len(ratePoints)
HasAnchor == ~Falsy(streamStartTs) \/ ~Falsy(ratePoints[1].timestamp)

\* max(0, floor(sample.timestamp - streamStart)), streamStart defaulting to
\* the timestamp of the first sample.
ElapsedAt(index) ==
    LET anchor == IF ~Falsy(streamStartTs) THEN streamStartTs
                  ELSE ratePoints[1].timestamp
        d == ratePoints[index + 1].timestamp - anchor
    IN IF d > 0 THEN d ELSE 0

\* How far entry k is from the elapsed time of the sample at index.
Distance(k, index) ==
    Abs(parseRuntimeSeconds(history[k].timestamp).seconds - ElapsedAt(index))

\* C14: when a sample, an anchor and a parseable history entry exist, the
\* aligner returns the first, in arrival order, of the entries whose runtime
\* is nearest to the elapsed time of the sample.
ClosestSummaryIsNearest ==
    [][(/\ last'.op = "hover" /\ last'.arg = ""
        /\ HasSample(last'.index) /\ HasAnchor /\ Parsed # {})
          => \E k \in Parsed :
                /\ \A j \in Parsed : Distance(k, last'.index) <= Distance(j, last'.index)
                /\ \A j \in Parsed :
                      j < k => Distance(k, last'.index) < Distance(j, last'.index)
                /\ last'.match = [summary |-> history[k].summary,
                                  runtime |-> history[k].timestamp]]_vars

\* Stream start 1000, the sample at 1090 under the pointer, history runtimes
\* 01:00, 01:45, 02:00: the 01:45 entry is shown.
ClosestSummaryWitness ==
    /\ last.op = "hover" /\ last.index = 1
    /\ streamStartTs = 1000 /\ Len(ratePoints) = 2 /\ ratePoints[2].timestamp = 1090
    /\ Len(history) = 3
    /\ history[1].timestamp = <<"0","1",":","0","0">>
    /\ history[2].timestamp = <<"0","1",":","4","5">>
    /\ history[3].timestamp = <<"0","2",":","0","0">>
    /\ last.match = [summary |-> "h2", runtime |-> <<"0","1",":","4","5">>]
    /\ hoveredSummary = "h2" /\ hoveredRuntime = <<"0","1",":","4","5">>

RECURSIVE LinesBetween(_, _, _)
LinesBetween(text, lo, hi) ==
    IF lo > hi THEN << <<>> >>
    ELSE IF lo = hi
         THEN IF text[lo] = "\n" THEN << <<>>, <<>> >> ELSE << <<text[lo]>> >>
    ELSE LET mid == (lo + hi) \div 2
             left == LinesBetween(text, lo, mid)
             right == LinesBetween(text, mid + 1, hi)
         IN SubSeq(left, 1, Len(left) - 1)
            \o << left[Len(left)] \o right[1] >>
            \o Tail(right)

Lines(text) == LinesBetween(text, 1, Len(text))

\* What a CSV reader makes of a line of quoted fields, read from inside a
\* field whose opening quote has been consumed: a doubled quote is one quote
\* of the field, a single one ends the field, and a comma and an opening
\* quote must follow unless the line ends there.
RECURSIVE ReadQuoted(_, _)
ReadQuoted(s, cur) ==
    IF s = <<>> THEN [ok |-> FALSE, fields |-> <<>>]
    ELSE IF Head(s) # "\"" THEN ReadQuoted(Tail(s), Append(cur, Head(s)))
    ELSE IF Len(s) >= 2 /\ s[2] = "\""
         THEN ReadQuoted(SubSeq(s, 3, Len(s)), Append(cur, "\""))
    ELSE IF Len(s) = 1 THEN [ok |-> TRUE, fields |-> <<cur>>]
    ELSE IF Len(s) >= 3 /\ s[2] = "," /\ s[3] = "\""
         THEN LET rest == ReadQuoted(SubSeq(s, 4, Len(s)), <<>>) IN
              [ok |-> rest.ok, fields |-> <<cur>> \o rest.fields]
    ELSE [ok |-> FALSE, fields |-> <<>>]

\* The fields of a line in which every field is quoted.
ReadRecord(line) ==
    IF line # <<>> /\ Head(line) = "\"" THEN ReadQuoted(Tail(line), <<>>)
    ELSE [ok |-> FALSE, fields |-> <<>>]

Record(a, b) == [ok |-> TRUE, fields |-> <<a, b>>]

\* Everything but the record of the last event is left as it was.
NothingHappened ==
    UNCHANGED <<seriesKey, staticVars, isEditing, draftVars, activeVars, status, error, seriesVars,
                pollVars, chart, viewVars, pendingEffects, edits>>

\* C17: exporting the keyword events with no stored event hands over no file
\* and changes nothing; with n >= 1 events the file keyword-timestamps.csv has
\* n + 1 lines, the header timestamp,keyword and one line per event in arrival
\* order, in which both fields are quoted and read back as the timestamp and
\* the keyword of the event; the one event 00:12 clutch gives the two lines
\* timestamp,keyword and "00:12","clutch".
ExportTimestampsWritesEveryEvent ==
    [][(last'.op = "export" /\ last'.arg = "timestamps")
          => IF events = <<>> THEN NothingHappened
             ELSE /\ download'.name = "keyword-timestamps.csv"
                  /\ \E lines \in {Lines(download'.csv)} :
                     /\ Len(lines) = Len(events) + 1
                     /\ lines[1] = <<"t","i","m","e","s","t","a","m","p",",",
                                     "k","e","y","w","o","r","d">>
                     /\ \A i \in 1..Len(events) :
                           ReadRecord(lines[i + 1])
                              = Record(events[i].timestamp, events[i].keyword)
                     /\ events = <<KeywordEvent(<<"0","0",":","1","2">>,
                                                <<"c","l","u","t","c","h">>)>>
                           => lines[2] = <<"\"","0","0",":","1","2","\"",",",
                                           "\"","c","l","u","t","c","h","\"">>]_vars

\* The event 00:12 clutch was exported: the file is the header, a line break
\* and the quoted row.
ExportTimestampsWitness ==
    /\ last.op = "export" /\ last.arg = "timestamps"
    /\ events = <<KeywordEvent(<<"0","0",":","1","2">>, <<"c","l","u","t","c","h">>)>>
    /\ download = [name |-> "keyword-timestamps.csv",
                   csv |-> <<"t","i","m","e","s","t","a","m","p",",",
                             "k","e","y","w","o","r","d","\n",
                             "\"","0","0",":","1","2","\"",",",
                             "\"","c","l","u","t","c","h","\"">>]

\* A text of digits only that reads as the number n.
IsNumeral(text, n) ==
    /\ text # <<>>
    /\ \A i \in 1..Len(text) : text[i] \in Digit
    /\ ParseInt(text) = [nan |-> FALSE, n |-> n]

\* C18: exporting the rates with no stored ratePoints and no stored rates
\* hands over no file; otherwise the file chat-velocity.csv has the header
\* elapsed,rate and then, when ratePoints is non-empty, one line per stored
\* sample with its elapsed time and its rate, however many samples are stored,
\* and when it is empty one line per element of rates with its index
\* (counted from 0) and its value.
ExportRatesWritesEverySample ==
    [][(last'.op = "export" /\ last'.arg = "rates")
          => IF ratePoints = <<>> /\ rates = <<>> THEN NothingHappened
             ELSE /\ download'.name = "chat-velocity.csv"
                  /\ \E lines \in {Lines(download'.csv)} :
                     /\ lines[1] = <<"e","l","a","p","s","e","d",",","r","a","t","e">>
                     /\ Len(lines) = Len(RateSeries) + 1
                     /\ \A i \in 1..Len(RateSeries) :
                           LET record == ReadRecord(lines[i + 1]) IN
                           /\ record.ok /\ Len(record.fields) = 2
                           /\ IF ratePoints # <<>>
                              THEN /\ record.fields[1]
                                        = LabelText(formatElapsed(ratePoints[i].timestamp,
                                                                  streamStartTs))
                                   /\ IsNumeral(record.fields[2], ratePoints[i].rate)
                              ELSE /\ IsNumeral(record.fields[1], i - 1)
                                   /\ IsNumeral(record.fields[2], rates[i])]_vars

\* More ratePoints are stored than the chart shows, and the exported file has
\* a line for each of them after the header.
ExportRatesWitness ==
    /\ last.op = "export" /\ last.arg = "rates"
    /\ Len(ratePoints) > maxPoints
    /\ Len(chart.data) = maxPoints
    /\ download.name = "chat-velocity.csv"
    /\ Len(Lines(download.csv)) = Len(ratePoints) + 1

(***************************************************************************)
(* Status of a poll and of a commit.                                       *)
(***************************************************************************)
\* C19: when a response to a poll of the current configuration is a success,
\* status becomes Live if the summary of the payload is non-empty and Waiting
\* otherwise, title and channel become those of the payload, or Unknown when
\* it has none, and updatedAt becomes that of the payload, or null when it
\* has none.
SuccessfulPollShowsPayload ==
    [][(last'.op = "resp" /\ last'.arg = "ok" /\ ~last'.stale)
          => (/\ last'.resp.payload.summary # "" => status' = "Live"
              /\ last'.resp.payload.summary = "" => status' = "Waiting"
              /\ videoTitle' = IF last'.resp.payload.videoTitle = "" THEN "Unknown"
                               ELSE last'.resp.payload.videoTitle
              /\ videoChannel' = IF last'.resp.payload.videoChannel = "" THEN "Unknown"
                                 ELSE last'.resp.payload.videoChannel
              /\ updatedAt' = IF Falsy(last'.resp.payload.updatedAt) THEN Null
                              ELSE last'.resp.payload.updatedAt)]_vars

\* A payload with no summary, no title, no channel and no update time was
\* delivered to the current configuration.
SuccessfulPollWitness ==
    /\ last.op = "resp" /\ last.arg = "ok" /\ ~last.stale
    /\ last.resp.payload.summary = "" /\ last.resp.payload.videoTitle = ""
    /\ status = "Waiting"
    /\ videoTitle = "Unknown" /\ videoChannel = "Unknown"
    /\ updatedAt = Null

\* C20: every commit that passes reference validation sets status to
\* Connecting and error to empty, whether the stream changed or not and
\* whether or not any active field changed.
CommitAnnouncesConnecting ==
    [][last'.op = "commit" => (status' = "Connecting" /\ error' = "")]_vars

\* A commit of the stream that was already active changed no active field
\* (no effect is due) while a response had been shown: status is Connecting
\* over the series of that response.
CommitAnnouncesWitness ==
    /\ last.op = "commit" /\ last.arg = "same"
    /\ pendingEffects = {}
    /\ summary # ""
    /\ status = "Connecting" /\ error = ""

(***************************************************************************)
(* Order of the ticks of one configuration.                                *)
(***************************************************************************)
\* The requests in flight that were issued by the poll effect now in place.
LiveInFlight == SumOver({r \in DOMAIN inflight : ~r.superseded}, inflight)

\* C21: the ticks of one active configuration are strictly sequential: at
\* most one request of the poll effect in place awaits its response; a timer
\* is set only by the step that resolves that request, success or failure;
\* and the next tick is issued only by that timer firing after its 8000 ms,
\* when no request of the effect is awaiting a response.
TicksStrictlySequential ==
    /\ [](LiveInFlight <= 1)
    /\ [][(TickScheduled' /\ ~TickScheduled)
             => (/\ last'.op = "resp" /\ ~last'.stale
                 /\ LiveInFlight = 1 /\ LiveInFlight' = 0)]_vars
    /\ [][last'.op = "tick"
             => (/\ LiveInFlight = 0 /\ LiveInFlight' = 1
                 /\ \E t \in BagToSet(timers) :
                       /\ t.delay = PollDelay /\ t.cfg = ActiveConfig
                       /\ timers' = timers (-) SetToBag({t})
                       /\ CopiesIn(Request(t.cfg, TRUE, FALSE), inflight') = 1)]_vars

\* The second tick of a configuration resolved as a failure after its first
\* one had delivered a series, and the third one is scheduled.
TicksSequentialWitness ==
    /\ last.op = "resp" /\ ~last.stale /\ last.arg = "fail"
    /\ rates # <<>>
    /\ LiveInFlight = 0 /\ TickScheduled

(***************************************************************************)
(* Parameters of a request.                                                *)
(***************************************************************************)
\* C22: a request carries the keywords parameter only when, as it is issued,
\* the active mode is streamer and the active keywords are non-empty, and
\* then with those keywords; it carries the keywordThreshold parameter
\* exactly when the active mode is streamer, with the active threshold; a
\* request issued in general mode carries neither.
RequestCarriesKeywordParams ==
    [][\A r \in BagToSet(inflight') :
          (r.active /\ CopiesIn(r, inflight') > CopiesIn(r, inflight))
             => (/\ r.url.keywords
                       = IF activeMode' = "streamer" /\ activeKeywords' # ""
                         THEN {activeKeywords'} ELSE {}
                 /\ r.url.keywordThreshold
                       = IF activeMode' = "streamer" THEN {activeThreshold'} ELSE {}
                 /\ activeMode' = "general"
                       => (r.url.keywords = {} /\ r.url.keywordThreshold = {}))]_vars

\* General mode was committed over streamer mode with the keyword still in
\* the active cell: the request issued for it carries neither parameter.
RequestParamsWitness ==
    /\ last.op = "effects" /\ last.arg = "poll"
    /\ activeMode = "general" /\ activeKeywords = "clutch"
    /\ \E r \in BagToSet(inflight) :
          /\ ~r.superseded
          /\ r.url.mode = "general"
          /\ r.url.keywords = {} /\ r.url.keywordThreshold = {}

(***************************************************************************)
(* Reset.                                                                  *)
(***************************************************************************)
NoActiveConfig == ActiveConfig = Config(<<>>, "youtube", "general", "", "2")

DraftAtDefaults ==
    /\ draftInput = Text(<<>>) /\ draftSource = "youtube" /\ draftMode = "general"
    /\ draftKeywords = "" /\ draftThreshold = "2"

\* The cells of a session that is not watching anything.
Cleared == NoActiveConfig /\ status = "Idle" /\ SeriesEmpty

\* C23 as stated: reset leaves the active configuration empty, the draft at
\* its defaults, status Idle, error empty and every series empty with the
\* placeholders; and the active configuration, status, error and the series
\* stay so until the next successful commit.
ResetLastsUntilCommit ==
    /\ [][last'.op = "reset" => (Cleared' /\ DraftAtDefaults' /\ error' = "")]_vars
    /\ [][(Cleared /\ error = "" /\ last'.op # "commit")
             => (Cleared' /\ error' = "")]_vars

\* C23, amended: reset leaves the active configuration empty, the draft at
\* its defaults, status Idle, error empty and every series empty with the
\* placeholders; the active configuration, status and the series stay so
\* until the next successful commit, whatever response arrives; error stays
\* empty until the next commit attempt, and a rejected commit changes it and
\* nothing else; the draft stays until the user edits it.
ResetClearsSession ==
    /\ [][last'.op = "reset" => (Cleared' /\ DraftAtDefaults' /\ error' = "")]_vars
    /\ [][(Cleared /\ last'.op # "commit") => Cleared']_vars
    /\ [][(Cleared /\ error = "" /\ last'.op \notin {"commit", "reject"})
             => error' = ""]_vars
    /\ [][(Cleared /\ last'.op = "reject")
             => (error' # "" /\ UNCHANGED <<draftVars, pollVars>>)]_vars
    /\ [][(Cleared /\ last'.op \notin {"stageEdit", "reset"})
             => UNCHANGED draftVars]_vars

\* After a reset the response of a request that was in flight arrived with a
\* payload, and the session is still cleared.
ResetClearsWitness ==
    /\ last.op = "resp" /\ last.stale /\ last.arg = "ok"
    /\ last.resp.payload.summary # ""
    /\ Cleared /\ error = ""

(***************************************************************************)
(* Polling runs only while a configuration is active.                      *)
(***************************************************************************)
\* C24: while no active configuration exists, no request is issued and no
\* timer is set; once the effects of the render that cleared the
\* configuration have run, no timer is pending and no request of a poll
\* effect in place awaits a response.
NoPollingWithoutConfig ==
    /\ []((Idle /\ activeStreamId = <<>>) => (timers = EmptyBag /\ LiveInFlight = 0))
    /\ [][activeStreamId' = <<>>
             => (/\ \A r \in BagToSet(inflight') :
                       CopiesIn(r, inflight') > CopiesIn(r, inflight) => ~r.active
                 /\ BagCardinality(inflight') <= BagCardinality(inflight)
                 /\ BagCardinality(timers') <= BagCardinality(timers))]_vars

\* A reset cancelled the pending timer of the configuration it cleared.
NoPollingWitness ==
    /\ last.op = "effects" /\ last.arg = "poll" /\ last.cancelled = 1
    /\ activeStreamId = <<>>
    /\ timers = EmptyBag /\ inflight = EmptyBag

(***************************************************************************)
(* Writers of the shared cells.                                            *)
(***************************************************************************)
\* C25 as stated: the series, the labels, status, error and the display
\* fields change only in the completion handler of a tick, in a reset and
\* in a commit (accepted or rejected), the effects of their renders
\* included; the start of a tick by the timer changes none of them.
OnlyCompletionResetCommitWrite ==
    [][last'.op \notin {"resp", "reset", "commit", "reject", "effects"}
          => UNCHANGED <<seriesVars, status, error>>]_vars

\* C25, amended: a draft edit, the Edit button, a chart hover and an export
\* change none of the series, the labels, status, error and the display
\* fields; the start of a tick, by the timer or by the poll effect, changes
\* status to Updating and error to empty and nothing else of them; the
\* rateLabels effect changes the labels only; every other change is made by
\* the completion handler of a tick, a reset or a commit.
SharedCellsWriters ==
    /\ [][last'.op \in {"stageEdit", "edit", "hover", "export"}
             => UNCHANGED <<seriesVars, status, error>>]_vars
    /\ [][last'.op = "tick"
             => (UNCHANGED seriesVars /\ status' = "Updating" /\ error' = "")]_vars
    /\ [][last'.op = "effects"
             => (/\ UNCHANGED <<responseCells>>
                 /\ (status' # status \/ error' # error)
                       => (last'.arg = "poll" /\ status' = "Updating" /\ error' = ""))]_vars
    /\ [][last'.op \notin {"stageEdit", "edit", "hover", "export", "tick", "effects",
                           "resp", "reset", "commit", "reject"} => FALSE]_vars

\* The timer started a tick over a series that a response had delivered:
\* status went to Updating.
SharedCellsWitness ==
    /\ last.op = "tick" /\ ~last.stale
    /\ summary # "" /\ rates # <<>>
    /\ status = "Updating"
    /\ download.name # "" /\ hoveredSummary # ""

(***************************************************************************)
(* Reference parsing.                                                      *)
(***************************************************************************)
\* The 11-character identifiers a reference holds in one of the four forms:
\* bare (blanks around it aside), as the v parameter of a URL, as the path of
\* a youtu.be URL, and after /live/ in the path of a URL.
HeldIds(value) ==
    LET afterSlash == IF value.pathname # <<>> THEN Tail(value.pathname) ELSE <<>>
        afterLive == IF /\ Len(value.pathname) > 6
                        /\ SubSeq(value.pathname, 1, 6) = <<"/","l","i","v","e","/">>
                     THEN SubSeq(value.pathname, 7, Len(value.pathname))
                     ELSE <<>>
    IN {id \in {Trim(value.text)} : IsVideoId(id)}
       \cup {id \in {value.v} : value.isUrl /\ value.hasV /\ IsVideoId(id)}
       \cup {id \in {afterSlash} :
                /\ value.isUrl /\ IsVideoId(id)
                /\ Includes(value.hostname, <<"y","o","u","t","u",".","b","e">>)}
       \cup {id \in {afterLive} : value.isUrl /\ IsVideoId(id)}

\* C26: a YouTube reference that holds an 11-character identifier, bare or in
\* a watch URL, a short link or a live path, is committed with that
\* identifier; every other reference is rejected.
ParseVideoIdExact ==
    [][(last'.op \in {"commit", "reject"} /\ draftSource = "youtube")
          => IF HeldIds(draftInput) # {}
             THEN last'.op = "commit" /\ activeStreamId' \in HeldIds(draftInput)
             ELSE last'.op = "reject" /\ parseVideoId(draftInput) = <<>>]_vars

(***************************************************************************)
(* Labels of the ratePoints path.                                          *)
(***************************************************************************)
\* label is what the runtime clock shows for a sample taken at timestamp of
\* a stream that started at startTs: no text for a sample without a
\* timestamp, the time of day of the sample when the start is unknown, and
\* otherwise mm:ss, or hh:mm:ss from one hour on, reading as the seconds
\* from the start to the sample (0 for a sample before the start).
IsRuntimeClockOf(label, timestamp, startTs) ==
    IF Falsy(timestamp) THEN label = TextLabel(<<>>)
    ELSE IF Falsy(startTs) THEN label = ClockLabel(timestamp * 1000)
    ELSE LET elapsed == IF timestamp > startTs THEN timestamp - startTs ELSE 0 IN
         /\ label.kind = "text"
         /\ Len(label.text) = IF elapsed >= 3600 THEN 8 ELSE 5
         /\ parseRuntimeSeconds(label.text) = Runtime(elapsed)

\* C27: whenever ratePoints is non-empty and the effects of the last render
\* have run, there is one label per sample and label i is the runtime clock
\* of ratePoints[i].timestamp against the stored streamStartTs.
PointsLabelsFollowClock ==
    (Idle /\ ratePoints # <<>>)
       => (/\ Len(rateLabels) = Len(ratePoints)
           /\ \A i \in 1..Len(ratePoints) :
                 IsRuntimeClockOf(rateLabels[i], ratePoints[i].timestamp,
                                  streamStartTs))

\* A payload with the samples of the one before and another stream start was
\* reconciled: the labels were rewritten.
PointsLabelsFollowWitness ==
    /\ last.op = "effects" /\ last.arg = "labels"
    /\ ratePoints # <<>> /\ last.points = ratePoints
    /\ ~Falsy(last.start) /\ ~Falsy(streamStartTs) /\ last.start # streamStartTs
    /\ last.labels # rateLabels

\* One of the five series cells of the claim holds data.
HoldsData ==
    \/ summary # "" \/ events # <<>> \/ history # <<>>
    \/ rates # <<>> \/ ratePoints # <<>>

\* C28: whenever one of summary, events, history, rates and ratePoints is
\* not empty, a stream is active and the response that last filled the cells
\* answered a request with the identity key of the active stream; and the
\* cells are filled by nothing but a response that is not stale, to a request
\* with that key.
SeriesBelongToActiveStream ==
    /\ [](HoldsData => (/\ activeStreamId # <<>>
                        /\ seriesKey = IdentityKey(ActiveConfig)))
    /\ [][(HoldsData' /\ <<summary, events, history, rates, ratePoints>>'
                           # <<summary, events, history, rates, ratePoints>>)
             => (/\ last'.op = "resp" /\ last'.arg = "ok" /\ ~last'.stale
                 /\ seriesKey' = IdentityKey(ActiveConfig)
                 /\ UNCHANGED activeVars)]_vars

\* A stream delivered data, another stream was committed, and the late
\* response of the first stream has arrived: the cells are empty.
SeriesBelongWitness ==
    /\ last.op = "resp" /\ last.arg = "ok" /\ last.stale
    /\ last.resp.payload.summary # ""
    /\ activeStreamId # <<>>
    /\ seriesKey # NoKey /\ seriesKey # IdentityKey(ActiveConfig)
    /\ ~HoldsData

\* C29: status is "Idle" exactly when no stream is active, and while no
\* stream is active a response or a timer leaves the status "Idle".
IdleExactlyWithoutConfig ==
    /\ [](status = "Idle" <=> activeStreamId = <<>>)
    /\ [][(activeStreamId = <<>> /\ last'.op \in {"resp", "tick"})
             => (status' = "Idle" /\ activeStreamId' = <<>>)]_vars

\* After a reset the response of the request that was in flight has arrived,
\* a success with a summary: the status is still "Idle".
IdleAfterResetWitness ==
    /\ last.op = "resp" /\ last.arg = "ok" /\ last.stale
    /\ last.resp.payload.summary # ""
    /\ activeStreamId = <<>> /\ status = "Idle"
    /\ seriesKey # NoKey

\* C30: at most one timer is pending, and no timer is pending while a
\* request carrying the active configuration is in flight.
TimerExcludesRequest ==
    /\ BagCardinality(timers) <= 1
    /\ timers # EmptyBag
          => ~\E r \in BagToSet(inflight) :
                 activeStreamId # <<>> /\ r.cfg = ActiveConfig

\* C31: the static client never has more than one polling loop alive: its
\* pending requests and pending timers, each of which carries a loop on,
\* number one at most.
OnePollingLoop == Loops <= 1

\* The static page shows what reset writes, with no stream set.
StaticCleared ==
    /\ currentVideoId = <<>>
    /\ page.statusPill = "Idle"
    /\ page.errorText = ""
    /\ page.summaryContent = updateSummary("")
    /\ page.videoTitle = "Waiting..."
    /\ page.videoChannel = "Waiting..."

\* C32: once reset has cleared the static page, the status, the summary, the
\* title, the channel and the error line stay as reset left them until the
\* next submit.
ResetPageStays ==
    [][(StaticCleared /\ last'.op # "staticSubmit") => StaticCleared']_vars

\* C33: a rejected submit of the static client leaves the video id, the
\* mode, the keywords and the threshold as they were.
RejectedSubmitKeepsParams ==
    [][(last'.op = "staticSubmit" /\ last'.arg = "rejected")
          => UNCHANGED <<currentVideoId, currentMode, currentKeywords,
                         currentThreshold>>]_vars

\* The draft holds what the Edit button loaded from the active cells.
DraftAsLoaded ==
    /\ isEditing /\ activeStreamId # <<>>
    /\ draftInput = Text(activeStreamId) /\ draftSource = activeSource
    /\ draftMode = activeMode /\ draftKeywords = activeKeywords
    /\ draftThreshold = activeThreshold

\* C34: a submit of the draft as the Edit button loaded it is accepted, takes
\* the same-stream path, keeps the series and leaves the active
\* configuration as it was.
EditThenCommitKeepsConfig ==
    [][(DraftAsLoaded /\ last'.op \in {"commit", "reject"})
          => (/\ last'.op = "commit" /\ last'.arg = "same"
              /\ UNCHANGED <<activeVars, seriesVars>>)]_vars

\* The parts of a runtime clock text, split at the colons.
ClockParts(text) == SplitOn(text, ":", <<>>)

\* C35: for every stored sample with a non-zero timestamp, against a non-zero
\* stream start, parseRuntimeSeconds reads formatElapsed(timestamp, start)
\* as max(0, timestamp - start) seconds; the text has two parts below one
\* hour and three from one hour on, and it is the label the chart shows.
RuntimeClockRoundTrip ==
    \A i \in 1..Len(ratePoints) :
        (~Falsy(ratePoints[i].timestamp) /\ ~Falsy(streamStartTs))
           => LET d == ratePoints[i].timestamp - streamStartTs
                  elapsed == IF d > 0 THEN d ELSE 0
                  clock == formatElapsed(ratePoints[i].timestamp, streamStartTs)
              IN /\ clock.kind = "text"
                 /\ parseRuntimeSeconds(clock.text) = Runtime(elapsed)
                 /\ Len(ClockParts(clock.text)) = IF elapsed < 3600 THEN 2 ELSE 3
                 /\ Idle => rateLabels[i] = clock

\* A sample more than an hour after the stream start is labelled hh:mm:ss.
RuntimeClockWitness ==
    /\ Idle /\ Len(ratePoints) = 1 /\ ~Falsy(streamStartTs)
    /\ ratePoints[1].timestamp - streamStartTs = 3661
    /\ rateLabels[1].text = <<"0","1",":","0","1",":","0","1">>

\* C36: a hover at position index of the chart computes the closest
\* summary of the stored sample drawn there, which is the sample at
\* index + (stored length - displayed length).
HoverUsesDrawnSample ==
    [][(last'.op = "hover" /\ last'.arg = "" /\ ratePoints # <<>>)
          => LET offset == Len(ratePoints) - Len(chart.data) IN
             last'.match = getClosestHistorySummary(history, ratePoints,
                                                    streamStartTs,
                                                    last'.index + offset)]_vars

\* C37: every write of the chart data effect assigns as many labels as data
\* values, the write of the render that received the series included.
ChartWritesMatch ==
    [][last'.op = "effects"
          => (/\ last'.drawn.labels = last'.drawn.data
              /\ chart'.exists => Len(chart'.labels) = Len(chart'.data))]_vars

\* The list a payload holds in the field named field: its array, and the
\* empty list when the field is left out or holds something else.
ListOf(payload, field) ==
    IF field \in payload.texts THEN <<>> ELSE payload[field]

\* C38: a successful response to the current configuration stores the
\* arrays of its payload as events, history, rates and ratePoints, and the
\* empty list for a field that is left out or is no array, whatever was
\* stored before.
PollStoresPayloadLists ==
    [][(last'.op = "resp" /\ last'.arg = "ok" /\ ~last'.stale)
          => (/\ events' = ListOf(last'.resp.payload, "events")
              /\ history' = ListOf(last'.resp.payload, "summaryHistory")
              /\ rates' = ListOf(last'.resp.payload, "rates")
              /\ ratePoints' = ListOf(last'.resp.payload, "ratePoints"))]_vars

====
